---- MODULE Spec2Model ----
(***************************************************************************)
(* Model of the integration backbone of the modular monolith:              *)
(*   - MigrationRunner   (packages/db/src/migration-runner.ts)             *)
(*   - DatabaseConnection (packages/db/src/connection.ts), as far as the   *)
(*     runner uses it                                                      *)
(*   - EventBus          (packages/shared/src/domain-event.ts)             *)
(*   - Transaction       (packages/db/src/transaction.ts)                  *)
(*   - the lifecycle of DatabaseConnection: connect, disconnect, query     *)
(* Every await of the code is one step of the model: the statement sent to *)
(* the database is executed atomically, and the synchronous code that      *)
(* follows its resolution belongs to the same step.                        *)
(***************************************************************************)
EXTENDS Integers, Sequences, FiniteSets, TLC

\* ---------------------------------------------------------------- bounds
MaxReg == 2          \* registerDomain calls in total
MaxRuns == 2         \* calls of runAll or initialize in total
MaxPublish == 2      \* publish calls on the bus
MaxPublishAll == 1   \* publishAll calls on the bus
PoolMax == 2         \* connections of the pool (max: 20 in connect())
MaxTx == 3           \* Transaction.run calls in total
MaxWrites == 1       \* statements fn sends through its capability in one run
MaxLife == 3         \* connect and disconnect calls in total
MaxQueries == 2      \* DatabaseConnection.query calls in total
MaxExec == 2         \* RegisterUserUseCase.execute calls in total
MaxDirect == 2       \* events a caller publishes on the bus itself
MaxSame == 2         \* subscribe calls with the same event type and handler

\* ------------------------------------------------------- bounded universes
Runners == {"r1", "r2"}

\* A migration: its name and its two statement batches.
Migration(n) == [name |-> n, up |-> <<"up", n>>, down |-> <<"down", n>>]

\* The DomainMigrations values a caller may register.
DomainMigrationsSet ==
  { [domain |-> "a", migrations |-> <<Migration("m1"), Migration("m2")>>],
    [domain |-> "b", migrations |-> <<Migration("m1")>>] }

Keys == {<<"a", "m1">>, <<"a", "m2">>, <<"b", "m1">>}

NoPos == <<0, 0>>

VARIABLES
  pool,              \* DatabaseConnection.pool: "null" or "open"
  tableExists,       \* the _migrations table exists in the database
  ledger,            \* rows of _migrations: number of rows per (domain, name)
  upCount,           \* per (domain, name): up batches the database completed
  downCount,         \* per (domain, name): down batches the database completed
  domainMigrations,  \* per runner: the registered DomainMigrations, in order
  pc,                \* per runner: the await the call is suspended at
  op,                \* per runner: the public method in progress
  di, mi,            \* per runner: the two loop positions of runAll
  result,            \* per runner: outcome of the last finished call
  initErr,           \* per runner: error raised by the CREATE TABLE statement
  ups,               \* per runner: positions whose up batch this run sent
  recs,              \* per runner: positions this run recorded in the ledger
  runs,              \* number of runAll and initialize calls started
  failedUp,          \* per runner: position and error of the up batch that failed
  resume,            \* per runner: position the previous run failed at
  hazards,           \* what has happened so far: runAll calls overlapped
                     \* ("overlap"), an up batch completed and its ledger
                     \* insert did not ("unrecorded")
  handlers,          \* EventBus.handlers: Map from eventType to Set of handlers,
                     \* each Set as the sequence of its members in insertion order
  unsubs,            \* the unsubscribe closures subscribe() returned
  closures,          \* per event type and handler: one flag for every counted
                     \* subscribe call, TRUE until its closure has been invoked
  invoked,           \* per handler: number of invocations
  published,         \* number of publish calls made
  pubs,              \* per publish call: its snapshot, running handlers, outcome
  alls,              \* the publishAll calls: their events, publish calls, outcome
  clients,           \* per pooled connection: "free" or the run that holds it
  session,           \* per pooled connection: its database session (open
                     \* transaction, writes not yet committed)
  txPc,              \* per run process: the await Transaction.run is suspended at
  txConn,            \* per run process: the connection it holds, 0 for none
  txFn,              \* per run process: how fn ended ("none" before that)
  txErr,             \* per run process: the error the catch block caught
  txResult,          \* per run process: outcome of its last completed run
  written,           \* per run process: writes fn has sent in this run
  observable,        \* per run process: of those, the committed ones
  txReleases,        \* per run process: client.release() calls of this run
  txGot,             \* per run process: this run acquired a connection
  txRuns,            \* number of run calls started
  txCap,             \* per caller of run: the connection of the capability fn kept
  ending,            \* pool.end() has been called on the pool of the connection
  live,              \* Pool objects created and not yet ended
  lcPc,              \* per lifecycle caller: the await its call is suspended at
  lcOp,              \* the latest lifecycle call: its caller, its method, and
                     \* whether it returned at its first test
  lcResult,          \* per lifecycle caller: outcome of its last completed call
  lcCalls,           \* number of connect and disconnect calls started
  qCalls,            \* number of query() calls made
  qSent,             \* statements query() handed to the pool
  qResult,           \* outcome of the last query() call
  applied,           \* domains whose migrations runAll() has applied
  schemaState,       \* per domain: how the last runAll() over its migrations
                     \* ended, and whether dropSchema was called since
  relations,         \* names of the relations that exist in the database
  rows,              \* rows of the application's relations
  uuids,             \* random UUIDs generated so far
  modules,           \* modules created on the bus (their handler subscribed)
  reg,               \* per caller of RegisterUserUseCase.execute: its call
  execs,             \* number of execute calls started
  registered,        \* normalized emails of the registrations that succeeded
  deliveries,        \* what has happened so far: every auth.user_registered
                     \* event published, with the outcome of publish
  directs,           \* events a caller published on the bus itself
  boot               \* bootstrap(): its position and what it has completed

migVars == <<pool, tableExists, ledger, upCount, downCount, domainMigrations,
             pc, op, di, mi, result, initErr, ups, recs, runs, failedUp, resume, hazards>>
busVars == <<handlers, unsubs, closures, invoked, published, pubs, alls>>
txVars == <<clients, session, txPc, txConn, txFn, txErr, txResult, written,
            observable, txReleases, txGot, txRuns, txCap>>
connVars == <<ending, live, lcPc, lcOp, lcResult, lcCalls, qCalls, qSent, qResult>>
appVars == <<applied, schemaState, relations, rows, uuids, modules, reg, execs, registered,
             deliveries, directs, boot>>
vars == <<pool, tableExists, ledger, upCount, downCount, domainMigrations,
          pc, op, di, mi, result, initErr, ups, recs, runs, failedUp, resume, hazards,
          handlers, unsubs, closures, invoked, published, pubs, alls,
          clients, session, txPc, txConn, txFn, txErr, txResult, written,
          observable, txReleases, txGot, txRuns, txCap,
          ending, live, lcPc, lcOp, lcResult, lcCalls, qCalls, qSent, qResult,
          applied, schemaState, relations, rows, uuids, modules, reg, execs,
          registered, deliveries, directs, boot>>

\* ------------------------------------------------------------- event bus
EventTypes == {"auth.user_registered", "auth.user_logged_in"}
Handlers == {"h1", "h2"}

\* The subscribe calls a caller may make: two handlers of one event type,
\* one of them also a handler of the other type.
Subscriptions ==
  { <<"auth.user_registered", "h1">>, <<"auth.user_registered", "h2">>,
    <<"auth.user_logged_in", "h1">> }
PubIds == 1..MaxPublish
NoFail == [pos |-> NoPos, err |-> "none"]
FreePub == [state |-> "free", type |-> "none", snapshot |-> {}, called |-> {},
            pending |-> {}, failed |-> {}, carried |-> {}, result |-> "none"]

\* ----------------------------------------------------------- transactions
\* The callers of Transaction.run, the connections of the pool, and a
\* database session with no transaction open.
Txs == {"t1", "t2", "t3"}
Conns == 1..PoolMax
CleanSession == [inTx |-> FALSE, pending |-> 0]

\* The callers of connect() and disconnect(), and the one caller of
\* Transaction.run where the lifecycle is modelled.
Callers == {"c1", "c2"}
ConnTxs == {"t1"}

\* ------------------------------------------------------------ application
\* Strings the code computes on are sequences of characters.
EmailA == <<"a", "@", "b", ".", "c">>
EmailAPadded == <<" ", "A", "@", "B", ".", "c", " ">>
EmailD == <<"d", "@", "b", ".", "c">>
EmailNoAt == <<"a", "b">>
EmailBlank == <<" ">>
Emails == {EmailA, EmailAPadded, EmailD, EmailNoAt, EmailBlank}

PasswordStrong == <<"S", "e", "c", "u", "r", "e", "1", "2">>
PasswordWeak == <<"w", "e", "a", "k">>
Passwords == {PasswordStrong, PasswordWeak}

\* The RegisterUserDto values a caller may pass, the emails of the events a
\* caller publishes itself, and the callers of execute.
Dtos ==
  [email : Emails, password : {PasswordStrong}]
    \cup [email : {EmailA, EmailAPadded}, password : {PasswordWeak}]
EventEmails == {EmailA, EmailD}
Regs == {"r1", "r2"}
IdleReg == [pc |-> "idle", call |-> 0, dto |-> [email |-> <<>>, password |-> <<>>],
            email |-> <<>>, userId |-> 0, late |-> FALSE, stored |-> FALSE,
            saved |-> FALSE, result |-> "none"]

\* The domains with migrations, and the modules that subscribe to
\* auth.user_registered.
Domains == {"auth", "users", "billing"}

\* bootstrap() before it is called; the domains in the order it registers
\* their migrations, and the modules in the order it creates them.
IdleBoot == [pc |-> "idle", i |-> 0, connected |-> FALSE, migrated |-> FALSE,
             app |-> FALSE]
BootDomains == <<"auth", "users", "billing">>
BootModules == <<"auth", "users", "billing">>
Modules == {"users", "billing"}

Init ==
  /\ pool = "null"
  /\ tableExists = FALSE
  /\ ledger = [k \in Keys |-> 0]
  /\ upCount = [k \in Keys |-> 0]
  /\ downCount = [k \in Keys |-> 0]
  /\ domainMigrations = [r \in Runners |-> <<>>]
  /\ pc = [r \in Runners |-> "idle"]
  /\ op = [r \in Runners |-> "none"]
  /\ di = [r \in Runners |-> 0]
  /\ mi = [r \in Runners |-> 0]
  /\ result = [r \in Runners |-> "none"]
  /\ initErr = [r \in Runners |-> "none"]
  /\ ups = [r \in Runners |-> <<>>]
  /\ recs = [r \in Runners |-> {}]
  /\ runs = 0
  /\ failedUp = [r \in Runners |-> NoFail]
  /\ resume = [r \in Runners |-> NoPos]
  /\ hazards = {}
  /\ handlers = [t \in {} |-> <<>>]
  /\ unsubs = {}
  /\ closures = [s \in Subscriptions |-> <<>>]
  /\ invoked = [h \in Handlers |-> 0]
  /\ published = 0
  /\ pubs = [p \in PubIds |-> FreePub]
  /\ alls = <<>>
  /\ clients = [c \in Conns |-> "free"]
  /\ session = [c \in Conns |-> CleanSession]
  /\ txPc = [t \in Txs |-> "idle"]
  /\ txConn = [t \in Txs |-> 0]
  /\ txCap = [t \in Txs |-> 0]
  /\ txFn = [t \in Txs |-> "none"]
  /\ txErr = [t \in Txs |-> "none"]
  /\ txResult = [t \in Txs |-> "none"]
  /\ written = [t \in Txs |-> 0]
  /\ observable = [t \in Txs |-> 0]
  /\ txReleases = [t \in Txs |-> 0]
  /\ txGot = [t \in Txs |-> FALSE]
  /\ txRuns = 0
  /\ ending = FALSE
  /\ live = 0
  /\ lcPc = [p \in Callers |-> "idle"]
  /\ lcOp = [by |-> "none", method |-> "none", atOnce |-> FALSE]
  /\ lcResult = [p \in Callers |-> "none"]
  /\ lcCalls = 0
  /\ qCalls = 0
  /\ qSent = 0
  /\ qResult = "none"
  /\ applied = {}
  /\ schemaState = [d \in Domains |-> "new"]
  /\ relations = {}
  /\ rows = {}
  /\ uuids = 0
  /\ modules = {}
  /\ reg = [r \in Regs |-> IdleReg]
  /\ execs = 0
  /\ registered = {}
  /\ deliveries = <<>>
  /\ directs = 0
  /\ boot = IdleBoot

\* =================================================== DatabaseConnection
\* connect(): no-op when a pool exists, otherwise creates the pool.
Connect ==
  /\ pool = "null"
  /\ pool' = "open"
  /\ UNCHANGED <<tableExists, ledger, upCount, downCount, domainMigrations,
                 pc, op, di, mi, result, initErr, ups, recs, runs, failedUp, resume, hazards>>
  /\ UNCHANGED <<busVars, txVars, connVars, appVars>>

\* disconnect(): ends the pool and forgets it.
Disconnect ==
  /\ pool = "open"
  /\ pool' = "null"
  /\ UNCHANGED <<tableExists, ledger, upCount, downCount, domainMigrations,
                 pc, op, di, mi, result, initErr, ups, recs, runs, failedUp, resume, hazards>>
  /\ UNCHANGED <<busVars, txVars, connVars, appVars>>

\* query(): the guard at its head; "not_connected" is the error it throws.
QueryGuard == IF pool = "null" THEN "not_connected" ELSE "none"

\* ====================================================== MigrationRunner
Len2(r, d) == Len(domainMigrations[r][d].migrations)

\* Variant: the declared list is walked from its end.
MigrationIndex_reversed(r, d, m) == Len2(r, d) - m + 1

\* for (const migration of migrations): the m-th iteration yields the m-th
\* migration of the declared list.
MigrationIndex(r, d, m) == m

\* The migration the loops hold at iteration <<d, m>> of runner r.
MigrationAt(r, d, m) ==
  domainMigrations[r][d].migrations[MigrationIndex(r, d, m)]

\* Its place in the registration order: domain index, declared index.
Pos(r, d, m) == <<d, MigrationIndex(r, d, m)>>

\* (domain, name) of the migration registered at place p of runner r.
KeyAt(r, p) ==
  <<domainMigrations[r][p[1]].domain,
    domainMigrations[r][p[1]].migrations[p[2]].name>>

\* (domain, name) of the migration at iteration <<d, m>> of runner r.
Key(r, d, m) == <<domainMigrations[r][d].domain, MigrationAt(r, d, m).name>>

\* Every place of the registration order of runner r.
Places(r) ==
  UNION { {<<d, m>> : m \in 1..Len2(r, d)} : d \in 1..Len(domainMigrations[r]) }

PosLess(p, q) == p[1] < q[1] \/ (p[1] = q[1] /\ p[2] < q[2])

\* The two nested for-of loops of runAll: the first position at or after
\* <<d, m>> that holds a migration, NoPos when both loops are exhausted.
RECURSIVE LoopPos(_, _, _)
LoopPos(r, d, m) ==
  IF d > Len(domainMigrations[r]) THEN NoPos
  ELSE IF m > Len2(r, d) THEN LoopPos(r, d + 1, 1)
  ELSE <<d, m>>

\* Number of registerDomain calls made so far.
RECURSIVE Registered(_)
Registered(rs) ==
  IF rs = {} THEN 0
  ELSE LET r == CHOOSE x \in rs : TRUE
       IN Len(domainMigrations[r]) + Registered(rs \ {r})

\* registerDomain(): appends to the registration order.
RegisterDomain(r, dm) ==
  /\ Registered(Runners) < MaxReg
  /\ domainMigrations' = [domainMigrations EXCEPT ![r] = Append(@, dm)]
  /\ UNCHANGED <<pool, tableExists, ledger, upCount, downCount,
                 pc, op, di, mi, result, initErr, ups, recs, runs, failedUp, resume, hazards>>
  /\ UNCHANGED <<busVars, txVars, connVars, appVars>>

\* A caller invokes initialize() on its own.
CallInitialize(r) ==
  /\ pc[r] = "idle"
  /\ runs < MaxRuns
  /\ pc' = [pc EXCEPT ![r] = "initialize"]
  /\ op' = [op EXCEPT ![r] = "initialize"]
  /\ runs' = runs + 1
  /\ result' = [result EXCEPT ![r] = "none"]
  /\ initErr' = [initErr EXCEPT ![r] = "none"]
  /\ UNCHANGED <<pool, tableExists, ledger, upCount, downCount,
                 domainMigrations, di, mi, ups, recs, failedUp, resume, hazards>>
  /\ UNCHANGED <<busVars, txVars, connVars, appVars>>

\* A caller invokes runAll(): its first await is initialize().
CallRunAll(r) ==
  /\ pc[r] = "idle"
  /\ runs < MaxRuns
  /\ pc' = [pc EXCEPT ![r] = "initialize"]
  /\ op' = [op EXCEPT ![r] = "runAll"]
  /\ runs' = runs + 1
  /\ result' = [result EXCEPT ![r] = "none"]
  /\ initErr' = [initErr EXCEPT ![r] = "none"]
  /\ ups' = [ups EXCEPT ![r] = <<>>]
  /\ recs' = [recs EXCEPT ![r] = {}]
  /\ failedUp' = [failedUp EXCEPT ![r] = NoFail]
  \* the place the run before this one failed at, if no other runner has
  \* applied that migration since
  /\ resume' = [resume EXCEPT ![r] =
        IF failedUp[r] # NoFail /\ ledger[KeyAt(r, failedUp[r].pos)] = 0
        THEN failedUp[r].pos ELSE NoPos]
  /\ hazards' = IF \E q \in Runners \ {r} : pc[q] # "idle" /\ op[q] = "runAll"
                THEN hazards \cup {"overlap"} ELSE hazards
  /\ UNCHANGED <<pool, tableExists, ledger, upCount, downCount,
                 domainMigrations, di, mi>>
  /\ UNCHANGED <<busVars, txVars, connVars, appVars>>

\* What initialize() raises to its caller when CREATE TABLE raised err:
\* the catch block logs the error and returns normally.
InitializeRaises(err) == "none"

\* The continuation of runAll after an await resolved at position <<d, m>>:
\* step the loops to the next migration, or return.
Continue(r, d, m) ==
  LET p == LoopPos(r, d, m) IN
  IF p = NoPos
  THEN /\ pc' = [pc EXCEPT ![r] = "idle"]
       /\ result' = [result EXCEPT ![r] = "ok"]
       /\ di' = [di EXCEPT ![r] = 0]
       /\ mi' = [mi EXCEPT ![r] = 0]
  ELSE /\ pc' = [pc EXCEPT ![r] = "select"]
       /\ di' = [di EXCEPT ![r] = p[1]]
       /\ mi' = [mi EXCEPT ![r] = p[2]]
       /\ UNCHANGED result

\* runAll() rejects with error e.
Throw(r, e) ==
  /\ pc' = [pc EXCEPT ![r] = "idle"]
  /\ result' = [result EXCEPT ![r] = e]
  /\ di' = [di EXCEPT ![r] = 0]
  /\ mi' = [mi EXCEPT ![r] = 0]

\* initialize(): CREATE TABLE IF NOT EXISTS _migrations (... UNIQUE(domain, name)).
Initialize(r) ==
  /\ pc[r] = "initialize"
  /\ \E sqlOk \in BOOLEAN :
       LET err == IF QueryGuard # "none" THEN QueryGuard
                  ELSE IF sqlOk THEN "none" ELSE "sql_error"
           raised == InitializeRaises(err)
       IN /\ tableExists' = (tableExists \/ err = "none")
          /\ initErr' = [initErr EXCEPT ![r] = err]
          /\ IF raised # "none" THEN Throw(r, raised)
             ELSE IF op[r] = "initialize"
             THEN /\ pc' = [pc EXCEPT ![r] = "idle"]
                  /\ result' = [result EXCEPT ![r] = "ok"]
                  /\ UNCHANGED <<di, mi>>
             ELSE Continue(r, 1, 1)
  /\ UNCHANGED <<pool, ledger, upCount, downCount, domainMigrations, op,
                 ups, recs, runs, failedUp, resume, hazards>>
  /\ UNCHANGED <<busVars, txVars, connVars, appVars>>

\* Variant: the ledger check never finds a record.
IsMigrationExecuted_never(k) == FALSE

\* isMigrationExecuted(): SELECT 1 FROM _migrations WHERE domain, name.
IsMigrationExecuted(k) == ledger[k] > 0

\* The error of a statement that reads or writes the _migrations table.
LedgerQueryError ==
  IF QueryGuard # "none" THEN QueryGuard
  ELSE IF ~tableExists THEN "no_table" ELSE "none"

\* runAll, line 57-58: await isMigrationExecuted, then skip or go on to up.
Select(r) ==
  /\ pc[r] = "select"
  /\ IF LedgerQueryError # "none" THEN Throw(r, LedgerQueryError)
     ELSE IF IsMigrationExecuted(Key(r, di[r], mi[r]))
     THEN Continue(r, di[r], mi[r] + 1)
     ELSE /\ pc' = [pc EXCEPT ![r] = "up"]
          /\ UNCHANGED <<di, mi, result>>
  /\ UNCHANGED <<pool, tableExists, ledger, upCount, downCount,
                 domainMigrations, op, initErr, ups, recs, runs, failedUp, resume, hazards>>
  /\ UNCHANGED <<busVars, txVars, connVars, appVars>>

\* Variant: the other batch of the migration is sent.
Batch_down(migration) == migration.down

\* The statement batch runAll sends for a migration.
Batch(migration) == migration.up

\* The database completes a statement batch of (domain, name).
Execute(k, batch) ==
  /\ upCount' = [upCount EXCEPT ![k] = IF batch[1] = "up" THEN @ + 1 ELSE @]
  /\ downCount' = [downCount EXCEPT ![k] = IF batch[1] = "down" THEN @ + 1 ELSE @]

\* Variant: the error of the up batch is caught and the run goes on to the
\* ledger insert.
RunUp_swallow(r) ==
  /\ pc[r] = "up"
  /\ ups' = [ups EXCEPT ![r] = Append(@, Pos(r, di[r], mi[r]))]
  /\ \E sqlOk \in BOOLEAN :
       LET err == IF QueryGuard # "none" THEN QueryGuard
                  ELSE IF sqlOk THEN "none" ELSE "up_failed"
       IN IF err # "none"
          THEN /\ failedUp' = [failedUp EXCEPT ![r] =
                     [pos |-> Pos(r, di[r], mi[r]), err |-> err]]
               /\ pc' = [pc EXCEPT ![r] = "record"]
               /\ UNCHANGED <<di, mi, result, upCount, downCount>>
          ELSE /\ Execute(Key(r, di[r], mi[r]),
                          Batch(MigrationAt(r, di[r], mi[r])))
               /\ pc' = [pc EXCEPT ![r] = "record"]
               /\ UNCHANGED <<di, mi, result, failedUp>>
  /\ UNCHANGED <<pool, tableExists, ledger, domainMigrations, op, initErr,
                 recs, runs, resume, hazards>>
  /\ UNCHANGED <<busVars, txVars, connVars, appVars>>

\* runAll, line 60: await this.db.query(migration.up).
RunUp(r) ==
  /\ pc[r] = "up"
  /\ ups' = [ups EXCEPT ![r] = Append(@, Pos(r, di[r], mi[r]))]
  /\ \E sqlOk \in BOOLEAN :
       LET err == IF QueryGuard # "none" THEN QueryGuard
                  ELSE IF sqlOk THEN "none" ELSE "up_failed"
       IN IF err # "none"
          THEN /\ Throw(r, err)
               /\ failedUp' = [failedUp EXCEPT ![r] =
                     [pos |-> Pos(r, di[r], mi[r]), err |-> err]]
               /\ UNCHANGED <<upCount, downCount>>
          ELSE /\ Execute(Key(r, di[r], mi[r]),
                          Batch(MigrationAt(r, di[r], mi[r])))
               /\ pc' = [pc EXCEPT ![r] = "record"]
               /\ UNCHANGED <<di, mi, result, failedUp>>
  /\ UNCHANGED <<pool, tableExists, ledger, domainMigrations, op, initErr,
                 recs, runs, resume, hazards>>
  /\ UNCHANGED <<busVars, txVars, connVars, appVars>>

\* Variant: the table is created without the constraint.
UniqueViolation_off(k) == FALSE

\* The UNIQUE(domain, name) constraint of the table initialize() creates.
UniqueViolation(k) == ledger[k] > 0

\* runAll, line 61: await recordMigration: INSERT INTO _migrations.
RecordMigration(r) ==
  /\ pc[r] = "record"
  /\ LET k == Key(r, di[r], mi[r])
         err == IF LedgerQueryError # "none" THEN LedgerQueryError
                ELSE IF UniqueViolation(k) THEN "unique_violation" ELSE "none"
     IN IF err # "none"
        THEN /\ Throw(r, err)
             /\ hazards' = hazards \cup {"unrecorded"}
             /\ UNCHANGED <<ledger, recs>>
        ELSE /\ ledger' = [ledger EXCEPT ![k] = @ + 1]
             /\ recs' = [recs EXCEPT ![r] = @ \cup {Pos(r, di[r], mi[r])}]
             /\ Continue(r, di[r], mi[r] + 1)
             /\ UNCHANGED hazards
  /\ UNCHANGED <<pool, tableExists, upCount, downCount, domainMigrations, op,
                 initErr, ups, runs, failedUp, resume>>
  /\ UNCHANGED <<busVars, txVars, connVars, appVars>>

\* ============================================================= EventBus
\* handlers.get(t): the Set of the event type as the sequence of its
\* members in insertion order (the order a Set iterates in), with the empty
\* sequence standing for undefined.
HandlersGet(t) == IF t \in DOMAIN handlers THEN handlers[t] ELSE <<>>

\* The members of a Set.
Members(s) == {s[i] : i \in 1..Len(s)}

\* Set.add(h): a member keeps its place, a new one goes last.
SetAdd(s, h) == IF h \in Members(s) THEN s ELSE Append(s, h)

\* Set.delete(h).
SetDelete(s, h) == SelectSeq(s, LAMBDA x : x # h)

\* subscribe(): creates the Set of the event type when missing, adds the
\* handler, returns the closure that deletes it from that Set.
Subscribe(t, h) ==
  /\ handlers' = [x \in DOMAIN handlers \cup {t} |->
                    IF x = t THEN SetAdd(HandlersGet(t), h) ELSE handlers[x]]
  /\ unsubs' = unsubs \cup {<<t, h>>}
  /\ UNCHANGED <<closures, invoked, published, pubs, alls>>
  /\ UNCHANGED <<migVars, txVars, connVars, appVars>>

\* Variant: the closure deletes the oldest member of the Set it captured.
UnsubscribeFn_oldest(m, t, h) ==
  [m EXCEPT ![t] = IF @ = <<>> THEN @ ELSE Tail(@)]

\* The map after the closure returned by subscribe(t, h) has run on map m:
\* eventHandlers.delete(handler) on the Set captured for t.
UnsubscribeFn(m, t, h) == [m EXCEPT ![t] = SetDelete(@, h)]

\* The closure returned by subscribe(t, h) is invoked.
Unsubscribe(t, h) ==
  /\ <<t, h>> \in unsubs
  /\ handlers' = UnsubscribeFn(handlers, t, h)
  /\ UNCHANGED <<unsubs, closures, invoked, published, pubs, alls>>
  /\ UNCHANGED <<migVars, txVars, connVars, appVars>>

\* subscribe() with its call counted: the same statements as Subscribe, and
\* the closure it returns is told apart from the closures of earlier calls
\* with the same event type and handler.
SubscribeCounted(t, h) ==
  /\ Len(closures[<<t, h>>]) < MaxSame
  /\ handlers' = [x \in DOMAIN handlers \cup {t} |->
                    IF x = t THEN SetAdd(HandlersGet(t), h) ELSE handlers[x]]
  /\ unsubs' = unsubs \cup {<<t, h>>}
  /\ closures' = [closures EXCEPT ![<<t, h>>] = Append(@, TRUE)]
  /\ UNCHANGED <<invoked, published, pubs, alls>>
  /\ UNCHANGED <<migVars, txVars, connVars, appVars>>

\* The closure returned by the n-th counted subscribe(t, h) call is invoked:
\* every closure of the pair deletes the same handler from the same Set.
UnsubscribeCounted(t, h, n) ==
  /\ n \in 1..Len(closures[<<t, h>>])
  /\ handlers' = UnsubscribeFn(handlers, t, h)
  /\ closures' = [closures EXCEPT ![<<t, h>>][n] = FALSE]
  /\ UNCHANGED <<unsubs, invoked, published, pubs, alls>>
  /\ UNCHANGED <<migVars, txVars, connVars, appVars>>

\* Variant: publish creates the missing Set, as subscribe does.
PublishMap_creates(t) ==
  [x \in DOMAIN handlers \cup {t} |->
     IF x \in DOMAIN handlers THEN handlers[x] ELSE <<>>]

\* publish() reads the map with handlers.get(): the map after the call.
PublishMap(t) == handlers

\* The handlers that Array.from(eventHandlers).map(handler => handler(event))
\* calls on the array arr when the k-th call throws before returning its
\* promise (k = 0: no call throws): the exception leaves map() at once, so
\* the handlers after the k-th are not called.
Called(arr, k) ==
  IF k = 0 THEN Members(arr) ELSE {arr[i] : i \in 1..k}

\* The handler whose call threw.
Thrown(arr, k) == IF k = 0 THEN {} ELSE {arr[k]}

\* await Promise.all(handlerPromises) in a publish that has not settled:
\* it rejects as soon as one promise has rejected and fulfils when all have
\* fulfilled. The outcome of publish after handler promises have settled
\* leaving pending, failed.
PromiseAll(pending, failed) ==
  IF failed # {} THEN "rejected"
  ELSE IF pending = {} THEN "ok" ELSE "none"

\* The record of a publish(event of type t) call that found the array arr
\* and whose k-th handler call threw: an exception inside the async function
\* rejects its promise with that exception; no Set or an empty one fulfils
\* it; otherwise it waits at Promise.all.
PublishCall(t, arr, k) ==
  LET outcome == IF k # 0 THEN "rejected" ELSE PromiseAll(Members(arr), {})
  IN [state |-> IF outcome = "none" THEN "running" ELSE "resolved",
      type |-> t,
      snapshot |-> Members(arr),
      called |-> Called(arr, k),
      pending |-> Called(arr, k) \ Thrown(arr, k),
      failed |-> Thrown(arr, k),
      carried |-> Thrown(arr, k),
      result |-> outcome]

\* publish(), up to its await: look the Set up, return when there is none,
\* otherwise call every handler of Array.from(eventHandlers) in turn.
Publish(t, k) ==
  /\ published < MaxPublish
  /\ k \in 0..Len(HandlersGet(t))
  /\ published' = published + 1
  /\ handlers' = PublishMap(t)
  /\ invoked' = [h \in Handlers |->
                   IF h \in Called(HandlersGet(t), k) THEN invoked[h] + 1
                   ELSE invoked[h]]
  /\ pubs' = [pubs EXCEPT ![published + 1] = PublishCall(t, HandlersGet(t), k)]
  /\ UNCHANGED <<unsubs, closures, alls>>
  /\ UNCHANGED <<migVars, txVars, connVars, appVars>>

\* The publish calls of publishAll call a: events.map(...) calls publish for
\* every event, one after another.
PublishIds(a) == a.first .. (a.first + Len(a.events) - 1)

\* Variant: publishAll waits for every publish and then fulfils.
PublishAllOutcome_settled(a, ps) ==
  IF a.result # "none" THEN a.result
  ELSE IF \A p \in PublishIds(a) : ps[p].state = "resolved" THEN "ok"
  ELSE "none"

\* await Promise.all(events.map(...)) of publishAll call a when the publish
\* calls are as in ps: settled once, by the promises of its publish calls.
PublishAllOutcome(a, ps) ==
  IF a.result # "none" THEN a.result
  ELSE PromiseAll({p \in PublishIds(a) : ps[p].state = "running"},
                  {p \in PublishIds(a) : ps[p].result = "rejected"})

\* The publishAll calls after the publish calls have become ps.
PublishAllSettle(ps) ==
  [i \in DOMAIN alls |->
     [alls[i] EXCEPT !.result = PublishAllOutcome(alls[i], ps)]]

\* publishAll(events), up to its await: publish is called for the events in
\* turn, each call running up to its own await (ks[i] is the handler call
\* of the i-th publish that throws, 0 for none).
PublishAll(ts, ks) ==
  /\ Len(alls) < MaxPublishAll
  /\ published + Len(ts) <= MaxPublish
  /\ DOMAIN ks = DOMAIN ts
  /\ \A i \in DOMAIN ts : ks[i] \in 0..Len(HandlersGet(ts[i]))
  /\ published' = published + Len(ts)
  /\ invoked' = [h \in Handlers |->
                   invoked[h]
                     + Cardinality({i \in DOMAIN ts :
                                      h \in Called(HandlersGet(ts[i]), ks[i])})]
  /\ pubs' = [p \in PubIds |->
                IF p \in (published + 1)..(published + Len(ts))
                THEN PublishCall(ts[p - published],
                                 HandlersGet(ts[p - published]),
                                 ks[p - published])
                ELSE pubs[p]]
  /\ LET a == [events |-> ts, first |-> published + 1, result |-> "none"]
     IN alls' = Append(alls, [a EXCEPT !.result = PublishAllOutcome(a, pubs')])
  /\ UNCHANGED <<handlers, unsubs, closures>>
  /\ UNCHANGED <<migVars, txVars, connVars, appVars>>

\* The promise of handler h of publish call p settles, and with it the
\* Promise.all that publish awaits when this decides it; a rejection that
\* decides it is the reason publish rejects with. The publishAll call the
\* publish belongs to settles with it when this decides it.
HandlerSettle(p, h, ok) ==
  /\ h \in pubs[p].pending
  /\ LET pending == pubs[p].pending \ {h}
         failed == IF ok THEN pubs[p].failed ELSE pubs[p].failed \cup {h}
         outcome == IF pubs[p].state = "resolved" THEN pubs[p].result
                    ELSE PromiseAll(pending, failed)
         carried == IF pubs[p].state = "running" /\ ~ok THEN {h}
                    ELSE pubs[p].carried
     IN pubs' = [pubs EXCEPT ![p].pending = pending,
                             ![p].failed = failed,
                             ![p].carried = carried,
                             ![p].result = outcome,
                             ![p].state = IF outcome = "none" THEN "running"
                                          ELSE "resolved"]
  /\ alls' = PublishAllSettle(pubs')
  /\ UNCHANGED <<handlers, unsubs, closures, invoked, published>>
  /\ UNCHANGED <<migVars, txVars, connVars, appVars>>

\* ========================================================== Transaction
\* Variant: the pool hands out its first connection whenever some
\* connection is free.
FreeConn_first == IF \E c \in Conns : clients[c] = "free" THEN 1 ELSE 0

\* pool.connect(): the connection the pool hands out, 0 when all are
\* checked out.
FreeConn ==
  IF \E c \in Conns : clients[c] = "free"
  THEN CHOOSE c \in Conns :
         clients[c] = "free" /\ \A d \in Conns : clients[d] = "free" => c <= d
  ELSE 0

\* run(fn) is called: getClient() throws when there is no pool, otherwise
\* it asks the pool for a connection.
CallRun(t) ==
  /\ txPc[t] = "idle"
  /\ txRuns < MaxTx
  /\ txRuns' = txRuns + 1
  /\ txPc' = [txPc EXCEPT ![t] = IF pool = "null" THEN "idle" ELSE "getClient"]
  /\ txResult' = [txResult EXCEPT ![t] =
                    IF pool = "null" THEN "not_connected" ELSE "none"]
  /\ txFn' = [txFn EXCEPT ![t] = "none"]
  /\ txErr' = [txErr EXCEPT ![t] = "none"]
  /\ written' = [written EXCEPT ![t] = 0]
  /\ observable' = [observable EXCEPT ![t] = 0]
  /\ txReleases' = [txReleases EXCEPT ![t] = 0]
  /\ txGot' = [txGot EXCEPT ![t] = FALSE]
  /\ UNCHANGED <<clients, session, txConn>>
  /\ UNCHANGED <<migVars, busVars, connVars, appVars, txCap>>

\* await this.db.getClient() settles: with a connection of the pool, or
\* with the error of pool.connect() (no connection within the timeout, or
\* the database refused), which leaves run before its try block.
GetClient(t, ok) ==
  /\ txPc[t] = "getClient"
  /\ IF ok
     THEN /\ FreeConn # 0
          /\ clients' = [clients EXCEPT ![FreeConn] = t]
          /\ txConn' = [txConn EXCEPT ![t] = FreeConn]
          /\ txGot' = [txGot EXCEPT ![t] = TRUE]
          /\ txPc' = [txPc EXCEPT ![t] = "begin"]
          /\ UNCHANGED txResult
     ELSE /\ txPc' = [txPc EXCEPT ![t] = "idle"]
          /\ txResult' = [txResult EXCEPT ![t] = "connect_error"]
          /\ UNCHANGED <<clients, txConn, txGot>>
  /\ UNCHANGED <<session, txFn, txErr, written, observable, txReleases, txRuns>>
  /\ UNCHANGED <<migVars, busVars, connVars, appVars, txCap>>

\* await client.query("BEGIN"): opens a transaction on the session of the
\* connection and fn is invoked, or fails into the catch block.
Begin(t, ok) ==
  /\ txPc[t] = "begin"
  /\ IF ok
     THEN /\ session' = [session EXCEPT ![txConn[t]].inTx = TRUE]
          /\ txPc' = [txPc EXCEPT ![t] = "fn"]
          /\ UNCHANGED txErr
     ELSE /\ txErr' = [txErr EXCEPT ![t] = "begin_error"]
          /\ txPc' = [txPc EXCEPT ![t] = "rollback"]
          /\ UNCHANGED session
  /\ UNCHANGED <<clients, txConn, txFn, txResult, written, observable,
                 txReleases, txGot, txRuns>>
  /\ UNCHANGED <<migVars, busVars, connVars, appVars, txCap>>

\* Variant: the capability sends its statement outside the transaction.
SessionWrite_autocommit(s) == [committed |-> 1, session |-> s]

\* A write executed on a session: it waits for the end of the open
\* transaction, or is committed at once when none is open.
SessionWrite(s) ==
  IF s.inTx THEN [committed |-> 0, session |-> [s EXCEPT !.pending = @ + 1]]
  ELSE [committed |-> 1, session |-> s]

\* fn awaits transactionClient.query(sql) with a write: client.query on the
\* connection of the run.
FnWrite(t) ==
  /\ txPc[t] = "fn"
  /\ written[t] < MaxWrites
  /\ written' = [written EXCEPT ![t] = @ + 1]
  /\ session' = [session EXCEPT ![txConn[t]] = SessionWrite(@).session]
  /\ observable' = [observable EXCEPT
                      ![t] = @ + SessionWrite(session[txConn[t]]).committed]
  /\ UNCHANGED <<clients, txPc, txConn, txFn, txErr, txResult, txReleases,
                 txGot, txRuns>>
  /\ UNCHANGED <<migVars, busVars, connVars, appVars, txCap>>

\* Variant: COMMIT is sent whatever fn did.
AfterFn_commit(ok) == "commit"

\* The statement that follows await fn(transactionClient): COMMIT in the try
\* block when fn returned, ROLLBACK in the catch block when it threw.
AfterFn(ok) == IF ok THEN "commit" ELSE "rollback"

\* await fn(transactionClient) settles: fulfilled, and COMMIT is sent, or
\* rejected, into the catch block.
FnSettle(t, ok) ==
  /\ txPc[t] = "fn"
  /\ txFn' = [txFn EXCEPT ![t] = IF ok THEN "returned" ELSE "threw"]
  /\ txErr' = [txErr EXCEPT ![t] = IF ok THEN @ ELSE "fn_error"]
  /\ txPc' = [txPc EXCEPT ![t] = AfterFn(ok)]
  /\ UNCHANGED <<clients, session, txConn, txResult, written, observable,
                 txReleases, txGot, txRuns>>
  /\ UNCHANGED <<migVars, busVars, connVars, appVars, txCap>>

\* Variant: release() leaves the connection checked out.
ClientRelease_leak(cs, c) == cs

\* client.release(): the connection goes back to the pool.
ClientRelease(cs, c) == [cs EXCEPT ![c] = "free"]

\* The finally block, and with it the end of run with outcome res.
Finally(t, res) ==
  /\ clients' = ClientRelease(clients, txConn[t])
  /\ txReleases' = [txReleases EXCEPT ![t] = @ + 1]
  /\ txConn' = [txConn EXCEPT ![t] = 0]
  /\ txPc' = [txPc EXCEPT ![t] = "idle"]
  /\ txResult' = [txResult EXCEPT ![t] = res]

\* await client.query("COMMIT"): the writes of the transaction become
\* observable and run returns the result of fn, after the finally block; or
\* the database refuses, which ends the transaction without its writes and
\* leads into the catch block.
Commit(t, ok) ==
  /\ txPc[t] = "commit"
  /\ session' = [session EXCEPT ![txConn[t]] = CleanSession]
  /\ IF ok
     THEN /\ observable' = [observable EXCEPT
                              ![t] = @ + session[txConn[t]].pending]
          /\ Finally(t, "value")
          /\ UNCHANGED txErr
     ELSE /\ txErr' = [txErr EXCEPT ![t] = "commit_error"]
          /\ txPc' = [txPc EXCEPT ![t] = "rollback"]
          /\ UNCHANGED <<clients, txConn, txResult, observable, txReleases>>
  /\ UNCHANGED <<txFn, written, txGot, txRuns>>
  /\ UNCHANGED <<migVars, busVars, connVars, appVars, txCap>>

\* The catch block: await client.query("ROLLBACK"), then throw error. When
\* the statement fails its error leaves the block instead. Either way the
\* transaction of the session is over (a ROLLBACK fails when the connection
\* is lost, and the database then aborts the transaction), and the finally
\* block runs.
Rollback(t, ok) ==
  /\ txPc[t] = "rollback"
  /\ session' = [session EXCEPT ![txConn[t]] = CleanSession]
  /\ Finally(t, IF ok THEN txErr[t] ELSE "rollback_error")
  /\ UNCHANGED <<txFn, txErr, written, observable, txGot, txRuns>>
  /\ UNCHANGED <<migVars, busVars, connVars, appVars, txCap>>

\* fn keeps the capability it was handed beyond its own return: it stores
\* the object, or starts work that will call query() later.  The capability
\* is the closure over client built in run; nothing ends its use.
FnKeep(t) ==
  /\ txPc[t] = "fn"
  /\ txCap[t] = 0
  /\ written[t] < MaxWrites
  /\ txCap' = [txCap EXCEPT ![t] = txConn[t]]
  /\ UNCHANGED <<clients, session, txPc, txConn, txFn, txErr, txResult, written,
                 observable, txReleases, txGot, txRuns>>
  /\ UNCHANGED <<migVars, busVars, connVars, appVars>>

\* query(sql) of a kept capability: client.query on the connection the
\* capability was built over, whoever holds that connection now.  The
\* statement counts among those sent through the capability of the run.
CapQuery(t) ==
  /\ txCap[t] # 0
  /\ written[t] < MaxWrites
  /\ written' = [written EXCEPT ![t] = @ + 1]
  /\ session' = [session EXCEPT ![txCap[t]] = SessionWrite(@).session]
  /\ observable' = [observable EXCEPT
                      ![t] = @ + SessionWrite(session[txCap[t]]).committed]
  /\ txCap' = [txCap EXCEPT ![t] = 0]
  /\ UNCHANGED <<clients, txPc, txConn, txFn, txErr, txResult,
                 txReleases, txGot, txRuns>>
  /\ UNCHANGED <<migVars, busVars, connVars, appVars>>

\* ========================================= DatabaseConnection lifecycle
\* isConnected().
IsConnected == pool # "null"

\* Variant: connect() always creates a pool.
ConnectCreates_always == TRUE

\* connect(): the test at its head; a pool is created when there is none.
ConnectCreates == pool = "null"

\* connect() is called: returns at once when there is a pool, otherwise
\* creates the Pool, stores it and awaits pool.connect() to verify it.
ConnectCall(p) ==
  /\ lcPc[p] = "idle"
  /\ lcCalls < MaxLife
  /\ lcCalls' = lcCalls + 1
  /\ lcOp' = [by |-> p, method |-> "connect", atOnce |-> ~ConnectCreates]
  /\ IF ConnectCreates
     THEN /\ pool' = "open"
          /\ live' = live + 1
          /\ ending' = FALSE
          /\ lcPc' = [lcPc EXCEPT ![p] = "verify"]
          /\ lcResult' = [lcResult EXCEPT ![p] = "none"]
     ELSE /\ lcResult' = [lcResult EXCEPT ![p] = "ok"]
          /\ UNCHANGED <<pool, live, ending, lcPc>>
  /\ UNCHANGED <<qCalls, qSent, qResult>>
  /\ UNCHANGED <<tableExists, ledger, upCount, downCount, domainMigrations,
                 pc, op, di, mi, result, initErr, ups, recs, runs, failedUp,
                 resume, hazards>>
  /\ UNCHANGED <<busVars, txVars, appVars>>

\* await this.pool.connect() of connect() settles: the client is released
\* and connect returns, or the error leaves connect; the pool stays stored.
ConnectVerify(p, ok) ==
  /\ lcPc[p] = "verify"
  /\ ok => (~ending /\ FreeConn # 0)
  /\ lcPc' = [lcPc EXCEPT ![p] = "idle"]
  /\ lcResult' = [lcResult EXCEPT ![p] = IF ok THEN "ok" ELSE "connect_error"]
  /\ UNCHANGED <<ending, live, lcOp, lcCalls, qCalls, qSent, qResult>>
  /\ UNCHANGED <<migVars, busVars, txVars, appVars>>

\* disconnect() is called: returns at once when there is no pool, otherwise
\* awaits pool.end(), which rejects at once on a pool that end() was
\* already called on.
DisconnectCall(p) ==
  /\ lcPc[p] = "idle"
  /\ lcCalls < MaxLife
  /\ lcCalls' = lcCalls + 1
  /\ lcOp' = [by |-> p, method |-> "disconnect", atOnce |-> ~IsConnected]
  /\ IF pool = "null"
     THEN /\ lcResult' = [lcResult EXCEPT ![p] = "ok"]
          /\ UNCHANGED <<ending, lcPc>>
     ELSE IF ending
     THEN /\ lcResult' = [lcResult EXCEPT ![p] = "end_error"]
          /\ UNCHANGED <<ending, lcPc>>
     ELSE /\ ending' = TRUE
          /\ lcPc' = [lcPc EXCEPT ![p] = "ending"]
          /\ lcResult' = [lcResult EXCEPT ![p] = "none"]
  /\ UNCHANGED <<live, qCalls, qSent, qResult>>
  /\ UNCHANGED <<migVars, busVars, txVars, appVars>>

\* Variant: disconnect() keeps the ended pool.
PoolAfterEnd_kept == pool

\* this.pool = null, after pool.end().
PoolAfterEnd == "null"

\* await this.pool.end() settles, once every checked-out client is back, and
\* disconnect() forgets the pool.
DisconnectEnd(p) ==
  /\ lcPc[p] = "ending"
  /\ \A c \in Conns : clients[c] = "free"
  /\ pool' = PoolAfterEnd
  /\ live' = live - 1
  /\ ending' = (PoolAfterEnd # "null")
  /\ lcPc' = [lcPc EXCEPT ![p] = "idle"]
  /\ lcResult' = [lcResult EXCEPT ![p] = "ok"]
  /\ UNCHANGED <<lcOp, lcCalls, qCalls, qSent, qResult>>
  /\ UNCHANGED <<tableExists, ledger, upCount, downCount, domainMigrations,
                 pc, op, di, mi, result, initErr, ups, recs, runs, failedUp,
                 resume, hazards>>
  /\ UNCHANGED <<busVars, txVars, appVars>>

\* Variant: query() has no guard.
QueryThrows_never == "none"

\* query(): the error thrown at its head.
QueryThrows == QueryGuard

\* query(sql) is called and completes: it throws when there is no pool,
\* otherwise hands the statement to pool.query(), which executes it or
\* fails (always, on a pool that is ending).
DbQuery(ok) ==
  /\ qCalls < MaxQueries
  /\ qCalls' = qCalls + 1
  /\ IF QueryThrows # "none"
     THEN /\ qResult' = QueryThrows
          /\ UNCHANGED qSent
     ELSE /\ ok => (pool = "open" /\ ~ending)
          /\ qSent' = qSent + 1
          /\ qResult' = IF ok THEN "ok" ELSE "query_error"
  /\ UNCHANGED <<ending, live, lcPc, lcOp, lcResult, lcCalls>>
  /\ UNCHANGED <<migVars, busVars, txVars, appVars>>

\* ============================================================ Application
\* String.prototype.toLowerCase and String.prototype.trim.
LowerOf == [A |-> "a", B |-> "b", C |-> "c", D |-> "d", S |-> "s"]
IsUpper(c) == c \in DOMAIN LowerOf
IsLower(c) == c \in {"a", "b", "c", "d", "e", "k", "r", "s", "u", "w"}
IsDigit(c) == c \in {"0", "1", "2", "3", "4", "5", "6", "7", "8", "9"}
IsSpace(c) == c = " "

RECURSIVE ToLowerCase(_)
ToLowerCase(s) ==
  IF s = <<>> THEN <<>>
  ELSE <<IF IsUpper(Head(s)) THEN LowerOf[Head(s)] ELSE Head(s)>>
         \o ToLowerCase(Tail(s))

RECURSIVE TrimStart(_)
TrimStart(s) ==
  IF s # <<>> /\ IsSpace(Head(s)) THEN TrimStart(Tail(s)) ELSE s

RECURSIVE TrimEnd(_)
TrimEnd(s) ==
  IF s # <<>> /\ IsSpace(s[Len(s)]) THEN TrimEnd(SubSeq(s, 1, Len(s) - 1)) ELSE s

Trim(s) == TrimEnd(TrimStart(s))

\* Email.EMAIL_REGEX = /^[^\s@]+@[^\s@]+\.[^\s@]+$/ : no blank, one "@"
\* after at least one character, and a "." after it with at least one
\* character on each side.
EmailRegexTest(s) ==
  /\ \A k \in 1..Len(s) : ~IsSpace(s[k])
  /\ \E i \in 2..Len(s) :
       /\ s[i] = "@"
       /\ \A k \in 1..Len(s) : s[k] = "@" => k = i
       /\ \E j \in (i + 2)..(Len(s) - 1) : s[j] = "."

\* Email.create(): the value is the input lower-cased, then trimmed.
Normalized_untrimmed(email) == ToLowerCase(email)
Normalized(email) == Trim(ToLowerCase(email))

EmailCreate(email) ==
  LET normalized == Normalized(email) IN
    IF normalized = <<>>
    THEN [ok |-> FALSE, value |-> <<>>, error |-> "Email cannot be empty"]
    ELSE IF ~EmailRegexTest(normalized)
    THEN [ok |-> FALSE, value |-> <<>>, error |-> "Invalid email format"]
    ELSE [ok |-> TRUE, value |-> normalized, error |-> "none"]

\* Password.create(): the four rules, in the order of the code.  The bcrypt
\* hash of an accepted password is not part of the state.
MIN_LENGTH == 8

PasswordCreate(plainPassword) ==
  IF Len(plainPassword) < MIN_LENGTH
  THEN "Password must be at least 8 characters"
  ELSE IF ~\E k \in 1..Len(plainPassword) : IsUpper(plainPassword[k])
  THEN "Password must contain at least one uppercase letter"
  ELSE IF ~\E k \in 1..Len(plainPassword) : IsLower(plainPassword[k])
  THEN "Password must contain at least one lowercase letter"
  ELSE IF ~\E k \in 1..Len(plainPassword) : IsDigit(plainPassword[k])
  THEN "Password must contain at least one number"
  ELSE "ok"

\* The relations the CREATE TABLE statements of each domain's migrations
\* create, by the name the statement gives them.
AuthRelations == {"auth.user_credentials", "auth.refresh_tokens"}
UsersRelations == {"users.profiles"}
BillingRelations == {"billing_subscriptions"}
MigratedRelations(d) ==
  CASE d = "auth" -> AuthRelations
    [] d = "users" -> UsersRelations
    [] d = "billing" -> BillingRelations

\* The indexes the migrations create with CREATE INDEX, which has no
\* IF NOT EXISTS in any of them; an index lives in the schema of its table.
AuthIndexes ==
  {"auth.idx_auth_user_credentials_email", "auth.idx_auth_refresh_tokens_user_id",
   "auth.idx_auth_refresh_tokens_token_hash"}
BillingIndexes == {"idx_billing_subscriptions_user_id"}
MigratedIndexes(d) ==
  CASE d = "auth" -> AuthIndexes
    [] d = "users" -> {}
    [] d = "billing" -> BillingIndexes

\* The relations the statements of the application name.
CredentialsRelation == "auth_user_credentials"
ProfilesRelation == "users_profiles"
SubscriptionsRelation == "billing.subscriptions"
StatementRelations == {CredentialsRelation, ProfilesRelation, SubscriptionsRelation}

Row(rel, id, user, email, plan, status) ==
  [rel |-> rel, id |-> id, user |-> user, email |-> email, plan |-> plan,
   status |-> status]
RowsOf(rs, rel) == {w \in rs : w.rel = rel}

\* The schema that holds a relation: the one its name is qualified with,
\* public otherwise.
SchemaOf(rel) ==
  CASE rel \in AuthRelations \cup AuthIndexes -> "auth"
    [] rel \in UsersRelations -> "users"
    [] rel = "billing.subscriptions" -> "billing"
    [] OTHER -> "public"

\* registerDomain(<the domain's migrations>) followed by runAll(), as the
\* bootstrap and the test setups call them.  CREATE SCHEMA and CREATE TABLE
\* carry IF NOT EXISTS; CREATE INDEX does not, and is refused when a
\* relation of its name exists: the up batch fails and runAll() rejects,
\* with nothing of the batch created and no ledger row for it.  Otherwise
\* every up batch has completed.
ApplyMigrations(d) ==
  /\ d \notin applied
  /\ IF MigratedIndexes(d) \cap relations # {}
     THEN /\ schemaState' = [schemaState EXCEPT ![d] = "failed"]
          /\ UNCHANGED <<applied, relations>>
     ELSE /\ applied' = applied \cup {d}
          /\ relations' = relations \cup MigratedRelations(d) \cup MigratedIndexes(d)
          /\ schemaState' = [schemaState EXCEPT
                               ![d] = IF @ = "new" THEN "applied" ELSE "reapplied"]
  /\ UNCHANGED <<rows, uuids, modules, reg, execs, registered, deliveries, directs>>
  /\ UNCHANGED <<migVars, busVars, txVars, connVars, boot>>

\* dropSchema(db, d), as the test setups call it before runAll():
\*   DROP SCHEMA IF EXISTS "d" CASCADE  removes what the schema d holds,
\*   DELETE FROM _migrations WHERE domain = d  removes the ledger rows.
DropSchema(d) ==
  /\ relations' = {rel \in relations : SchemaOf(rel) # d}
  /\ rows' = {w \in rows : SchemaOf(w.rel) # d}
  /\ applied' = applied \ {d}
  /\ schemaState' = [schemaState EXCEPT ![d] = IF @ = "new" THEN "new" ELSE "dropped"]
  /\ UNCHANGED <<uuids, modules, reg, execs, registered, deliveries, directs>>
  /\ UNCHANGED <<migVars, busVars, txVars, connVars, boot>>

\* The database is a server the program is given the address of: a relation
\* that a statement names and no migration creates exists only when it was
\* created there by other means.  It then has the columns and constraints
\* that the domain's own CREATE TABLE statement gives.
CreateRelation(rel) ==
  /\ rel \notin relations
  /\ relations' = relations \cup {rel}
  /\ UNCHANGED <<schemaState, applied, rows, uuids, modules, reg, execs, registered, deliveries,
                 directs>>
  /\ UNCHANGED <<migVars, busVars, txVars, connVars, boot>>

\* createUsersModule / createBillingModule: the module's handler is
\* subscribed to auth.user_registered.
CreateModule(m) ==
  /\ m \notin modules
  /\ modules' = modules \cup {m}
  /\ UNCHANGED <<schemaState, applied, relations, rows, uuids, reg, execs, registered, deliveries,
                 directs>>
  /\ UNCHANGED <<migVars, busVars, txVars, connVars, boot>>

\* The statement of the users handler:
\*   INSERT INTO users_profiles (id, email) VALUES ($1, $2)
\*   ON CONFLICT (id) DO NOTHING
UsersHandler(rs, rels, userId, email) ==
  IF ProfilesRelation \notin rels
  THEN [ok |-> FALSE, rows |-> rs]
  ELSE IF \E w \in RowsOf(rs, ProfilesRelation) : w.id = userId
  THEN [ok |-> TRUE, rows |-> rs]
  ELSE [ok |-> TRUE,
        rows |-> rs \cup {Row(ProfilesRelation, userId, userId, email, "none", "none")}]

\* The statement of the billing handler:
\*   INSERT INTO billing.subscriptions (id, user_id, plan, status)
\*   VALUES (gen_random_uuid(), $1, 'free', 'active')
\* id is the primary key and takes a new value on every execution; user_id
\* carries an index and no constraint.
BillingHandler(rs, rels, userId, id) ==
  IF SubscriptionsRelation \notin rels
  THEN [ok |-> FALSE, rows |-> rs]
  ELSE [ok |-> TRUE,
        rows |-> rs \cup {Row(SubscriptionsRelation, id, userId, <<>>, "free", "active")}]

\* eventBus.publish(<UserRegisteredEvent>): the handler of every module
\* created on the bus is called and sends its one statement; publish
\* resolves when every statement succeeded and rejects otherwise.  The two
\* statements address different relations, so their order does not matter.
\* used is the number of random UUIDs generated before the statements run.
NoEffect(rs) == [ok |-> TRUE, rows |-> rs]
PublishUserRegistered(by, userId, email, used) ==
  LET u == IF "users" \in modules
           THEN UsersHandler(rows, relations, userId, email) ELSE NoEffect(rows)
      b == IF "billing" \in modules
           THEN BillingHandler(u.rows, relations, userId, used + 1)
           ELSE NoEffect(u.rows)
  IN /\ rows' = b.rows
     /\ uuids' = IF b.rows # u.rows THEN used + 1 ELSE used
     /\ deliveries' = Append(deliveries,
          [by |-> by, user |-> userId, email |-> email, modules |-> modules,
           applied |-> applied, ok |-> u.ok /\ b.ok])

\* A caller publishes an event itself, as the tests of the users and the
\* billing module do: for a new random user id or for one published before.
DeliveredUsers == {deliveries[i].user : i \in 1..Len(deliveries)}
PublishDirect(userId, email) ==
  /\ directs < MaxDirect
  /\ directs' = directs + 1
  /\ userId \in DeliveredUsers \cup {uuids + 1}
  /\ PublishUserRegistered(0, userId, email,
                           IF userId \in DeliveredUsers THEN uuids ELSE uuids + 1)
  /\ UNCHANGED <<schemaState, applied, relations, modules, reg, execs, registered>>
  /\ UNCHANGED <<migVars, busVars, txVars, connVars, boot>>

\* RegisterUserUseCase.execute(dto), up to its first await: Email.create
\* and, for a valid email, the SELECT of existsByEmail is sent.  late records
\* that a registration with this email, lower-cased and trimmed, had already
\* succeeded when the call was made, stored that credentials with this email
\* were in the database then.
ExecuteCall(r, dto) ==
  /\ execs < MaxExec
  /\ reg[r].pc \in {"idle", "done"}
  /\ execs' = execs + 1
  /\ LET emailResult == EmailCreate(dto.email)
         call == [IdleReg EXCEPT !.call = execs + 1, !.dto = dto,
                                 !.late = Trim(ToLowerCase(dto.email)) \in registered,
                                 !.stored =
                                   \E w \in RowsOf(rows, CredentialsRelation) :
                                     w.email = Trim(ToLowerCase(dto.email))]
     IN reg' = [reg EXCEPT ![r] =
          IF ~emailResult.ok
          THEN [call EXCEPT !.pc = "done", !.result = "InvalidEmailError"]
          ELSE [call EXCEPT !.pc = "existsByEmail", !.email = emailResult.value]]
  /\ UNCHANGED <<schemaState, applied, relations, rows, uuids, modules, registered, deliveries,
                 directs>>
  /\ UNCHANGED <<migVars, busVars, txVars, connVars, boot>>

\* existsByEmail: SELECT 1 FROM auth_user_credentials WHERE email = $1
ExistsByEmail(r) ==
  /\ reg[r].pc = "existsByEmail"
  /\ reg' = [reg EXCEPT ![r] =
       IF CredentialsRelation \notin relations
       THEN [@ EXCEPT !.pc = "done", !.result = "DatabaseError"]
       ELSE IF \E w \in RowsOf(rows, CredentialsRelation) : w.email = reg[r].email
       THEN [@ EXCEPT !.pc = "done", !.result = "EmailAlreadyExistsError"]
       ELSE [@ EXCEPT !.pc = "Password.create"]]
  /\ UNCHANGED <<schemaState, applied, relations, rows, uuids, modules, execs, registered,
                 deliveries, directs>>
  /\ UNCHANGED <<migVars, busVars, txVars, connVars, boot>>

\* Password.create, then createUserId(crypto.randomUUID()) and
\* UserCredentials.create; the INSERT of save is sent.
CreatePassword(r) ==
  /\ reg[r].pc = "Password.create"
  /\ IF PasswordCreate(reg[r].dto.password) # "ok"
     THEN /\ reg' = [reg EXCEPT ![r] = [@ EXCEPT !.pc = "done",
                                                 !.result = "InvalidPasswordError"]]
          /\ UNCHANGED uuids
     ELSE /\ reg' = [reg EXCEPT ![r] = [@ EXCEPT !.pc = "save", !.userId = uuids + 1]]
          /\ uuids' = uuids + 1
  /\ UNCHANGED <<schemaState, applied, relations, rows, modules, execs, registered, deliveries,
                 directs>>
  /\ UNCHANGED <<migVars, busVars, txVars, connVars, boot>>

\* save: INSERT INTO auth_user_credentials (id, email, ...) VALUES (...)
\*       ON CONFLICT (id) DO UPDATE SET email = EXCLUDED.email, ...
\* under the constraints email UNIQUE and email = LOWER(email).
Save(r) ==
  /\ reg[r].pc = "save"
  /\ LET mine == {w \in RowsOf(rows, CredentialsRelation) : w.id = reg[r].userId}
         rejected ==
           \/ CredentialsRelation \notin relations
           \/ \E w \in RowsOf(rows, CredentialsRelation) \ mine : w.email = reg[r].email
           \/ reg[r].email # ToLowerCase(reg[r].email)
     IN IF rejected
        THEN /\ reg' = [reg EXCEPT ![r] = [@ EXCEPT !.pc = "done",
                                                    !.result = "DatabaseError"]]
             /\ UNCHANGED rows
        ELSE /\ reg' = [reg EXCEPT ![r] = [@ EXCEPT !.pc = "publish", !.saved = TRUE]]
             /\ rows' = (rows \ mine) \cup
                  {Row(CredentialsRelation, reg[r].userId, reg[r].userId,
                       reg[r].email, "none", "none")}
  /\ UNCHANGED <<schemaState, applied, relations, uuids, modules, execs, registered, deliveries,
                 directs>>
  /\ UNCHANGED <<migVars, busVars, txVars, connVars, boot>>

\* new UserRegisteredEvent(userId, email.value)
EventEmail_dto(dto, email) == dto.email
EventEmail(dto, email) == email

\* Variant: execute returns the DTO whatever publish did.
PublishOutcome_swallowed(ok) == "ok"

\* How execute ends after await eventBus.publish(event): the rejection of
\* publish leaves execute, which has no try around it; otherwise the DTO is
\* returned.
PublishOutcome(ok) == IF ok THEN "ok" ELSE "HandlerError"

\* await eventBus.publish(event), then the return of the DTO.
PublishRegistered(r) ==
  /\ reg[r].pc = "publish"
  /\ PublishUserRegistered(reg[r].call, reg[r].userId,
                           EventEmail(reg[r].dto, reg[r].email), uuids)
  /\ LET ok == deliveries'[Len(deliveries')].ok
     IN /\ reg' = [reg EXCEPT ![r] = [@ EXCEPT !.pc = "done",
                      !.result = PublishOutcome(ok)]]
        /\ registered' = IF ok THEN registered \cup {reg[r].email} ELSE registered
  /\ UNCHANGED <<schemaState, applied, relations, modules, execs, directs>>
  /\ UNCHANGED <<migVars, busVars, txVars, connVars, boot>>

\* ============================================================ bootstrap
\* bootstrap() is called: loadConfig, new DatabaseConnection, and
\* db.connect(databaseUrl) up to its await, which stores the new pool.
BootCall ==
  /\ boot.pc = "idle"
  /\ pool = "null"
  /\ pool' = "open"
  /\ boot' = [boot EXCEPT !.pc = "connect"]
  /\ UNCHANGED <<tableExists, ledger, upCount, downCount, domainMigrations,
                 pc, op, di, mi, result, initErr, ups, recs, runs, failedUp, resume, hazards>>
  /\ UNCHANGED <<busVars, txVars, connVars>>
  /\ UNCHANGED <<applied, schemaState, relations, rows, uuids, modules, reg, execs,
                 registered, deliveries, directs>>

\* await db.connect() settles: a rejection leaves bootstrap; otherwise the
\* event bus and the runner are created, the migrations of the three
\* domains are registered, and runAll() is called.
BootConnect(ok) ==
  /\ boot.pc = "connect"
  /\ boot' = IF ok THEN [boot EXCEPT !.pc = "runAll", !.i = 1, !.connected = TRUE]
             ELSE [boot EXCEPT !.pc = "failed"]
  /\ UNCHANGED <<migVars, busVars, txVars, connVars>>
  /\ UNCHANGED <<applied, schemaState, relations, rows, uuids, modules, reg, execs,
                 registered, deliveries, directs>>

\* Variant: bootstrap goes on to create the modules when runAll() rejected.
AfterRunAll_ignored(ok, last) == IF last \/ ~ok THEN "modules" ELSE "runAll"

\* Where bootstrap is after runAll() has dealt with one domain: a failed up
\* batch rejects runAll() and with it bootstrap; after the last domain
\* runAll() resolves and the modules are created.
AfterRunAll(ok, last) ==
  IF ~ok THEN "failed" ELSE IF last THEN "modules" ELSE "runAll"

\* runAll() of bootstrap deals with the next registered domain: migrations
\* found in the ledger are skipped, the others run as in ApplyMigrations.
BootMigrate ==
  /\ boot.pc = "runAll"
  /\ LET d == BootDomains[boot.i]
         fails == d \notin applied /\ MigratedIndexes(d) \cap relations # {}
         next == AfterRunAll(~fails, boot.i = Len(BootDomains))
     IN /\ IF d \in applied
           THEN UNCHANGED <<applied, relations, schemaState>>
           ELSE IF fails
           THEN /\ schemaState' = [schemaState EXCEPT ![d] = "failed"]
                /\ UNCHANGED <<applied, relations>>
           ELSE /\ applied' = applied \cup {d}
                /\ relations' = relations \cup MigratedRelations(d) \cup MigratedIndexes(d)
                /\ schemaState' = [schemaState EXCEPT
                                     ![d] = IF @ = "new" THEN "applied" ELSE "reapplied"]
        /\ boot' = [boot EXCEPT !.pc = next,
                                !.i = IF next = "runAll" THEN @ + 1 ELSE 1,
                                !.migrated = (next = "modules" /\ ~fails)]
  /\ UNCHANGED <<migVars, busVars, txVars, connVars>>
  /\ UNCHANGED <<rows, uuids, modules, reg, execs, registered, deliveries, directs>>

\* createAuthModule, createUsersModule, createBillingModule, in this order:
\* the users and the billing module subscribe their handler.
BootCreateModule ==
  /\ boot.pc = "modules"
  /\ LET m == BootModules[boot.i]
     IN modules' = IF m \in Modules THEN modules \cup {m} ELSE modules
  /\ boot' = IF boot.i = Len(BootModules)
             THEN [boot EXCEPT !.pc = "createApp"]
             ELSE [boot EXCEPT !.i = @ + 1]
  /\ UNCHANGED <<migVars, busVars, txVars, connVars>>
  /\ UNCHANGED <<applied, schemaState, relations, rows, uuids, reg, execs, registered,
                 deliveries, directs>>

\* createApp({routers}): the Express app with the routers mounted; bootstrap
\* returns it.
BootCreateApp ==
  /\ boot.pc = "createApp"
  /\ boot' = [boot EXCEPT !.pc = "done", !.app = TRUE]
  /\ UNCHANGED <<migVars, busVars, txVars, connVars>>
  /\ UNCHANGED <<applied, schemaState, relations, rows, uuids, modules, reg, execs,
                 registered, deliveries, directs>>

\* ------------------------------------------------------- specifications
\* Runner instances whose calls interleave freely on one database.
Next ==
  \/ Connect
  \/ Disconnect
  \/ \E r \in Runners, dm \in DomainMigrationsSet : RegisterDomain(r, dm)
  \/ \E r \in Runners : CallInitialize(r)
  \/ \E r \in Runners : CallRunAll(r)
  \/ \E r \in Runners : Initialize(r)
  \/ \E r \in Runners : Select(r)
  \/ \E r \in Runners : RunUp(r)
  \/ \E r \in Runners : RecordMigration(r)

Spec == Init /\ [][Next]_vars

\* Calls executed one after another: a call starts only when no other call
\* is in progress, and the connection is not touched while a call runs.
Quiet == \A r \in Runners : pc[r] = "idle"

NextSeq ==
  \/ Quiet /\ Connect
  \/ Quiet /\ Disconnect
  \/ \E r \in Runners, dm \in DomainMigrationsSet : RegisterDomain(r, dm)
  \/ \E r \in Runners : Quiet /\ CallInitialize(r)
  \/ \E r \in Runners : Quiet /\ CallRunAll(r)
  \/ \E r \in Runners : Initialize(r)
  \/ \E r \in Runners : Select(r)
  \/ \E r \in Runners : RunUp(r)
  \/ \E r \in Runners : RecordMigration(r)

SpecSeq == Init /\ [][NextSeq]_vars

\* The event bus on its own.
NextBus ==
  \/ \E s \in Subscriptions : Subscribe(s[1], s[2])
  \/ \E s \in Subscriptions : Unsubscribe(s[1], s[2])
  \/ \E t \in EventTypes, k \in 0..Cardinality(Handlers) : Publish(t, k)
  \/ \E p \in PubIds, h \in Handlers, ok \in BOOLEAN : HandlerSettle(p, h, ok)

SpecBus == Init /\ [][NextBus]_vars

\* The event bus with its subscribe calls counted: handlers of one event
\* type, none of which throws as it is called.
SameType == "auth.user_registered"
NextSub ==
  \/ \E h \in Handlers : SubscribeCounted(SameType, h)
  \/ \E h \in Handlers, n \in 1..MaxSame : UnsubscribeCounted(SameType, h, n)
  \/ Publish(SameType, 0)
  \/ \E p \in PubIds, h \in Handlers : HandlerSettle(p, h, TRUE)

SpecSub == Init /\ [][NextSub]_vars

\* The event sequences a caller may hand to publishAll, with the handler
\* calls that throw.
EventSeqs == UNION {[1..n -> EventTypes] : n \in 0..MaxPublish}
ThrowSeqs == UNION {[1..n -> 0..Cardinality(Handlers)] : n \in 0..MaxPublish}

\* The event bus used through publishAll.
NextAll ==
  \/ \E s \in Subscriptions : Subscribe(s[1], s[2])
  \/ \E ts \in EventSeqs, ks \in ThrowSeqs : PublishAll(ts, ks)
  \/ \E p \in PubIds, h \in Handlers, ok \in BOOLEAN : HandlerSettle(p, h, ok)

SpecAll == Init /\ [][NextAll]_vars

\* No Transaction.run call is in progress.
NoRun == \A t \in Txs : txPc[t] = "idle"

\* Transaction.run calls that interleave freely on one DatabaseConnection,
\* which is connected and disconnected between them.
NextTx ==
  \/ NoRun /\ Connect
  \/ NoRun /\ Disconnect
  \/ \E t \in Txs : CallRun(t)
  \/ \E t \in Txs, ok \in BOOLEAN : GetClient(t, ok)
  \/ \E t \in Txs, ok \in BOOLEAN : Begin(t, ok)
  \/ \E t \in Txs : FnWrite(t)
  \/ \E t \in Txs, ok \in BOOLEAN : FnSettle(t, ok)
  \/ \E t \in Txs, ok \in BOOLEAN : Commit(t, ok)
  \/ \E t \in Txs, ok \in BOOLEAN : Rollback(t, ok)

SpecTx == Init /\ [][NextTx]_vars

\* Transaction.run with functions that keep their capability.
CapTxs == {"t1", "t2"}

NextTxCap ==
  \/ Connect
  \/ \E t \in CapTxs : CallRun(t)
  \/ \E t \in CapTxs, ok \in BOOLEAN : GetClient(t, ok)
  \/ \E t \in CapTxs, ok \in BOOLEAN : Begin(t, ok)
  \/ \E t \in CapTxs : FnWrite(t)
  \/ \E t \in CapTxs : FnKeep(t)
  \/ \E t \in CapTxs : CapQuery(t)
  \/ \E t \in CapTxs, ok \in BOOLEAN : FnSettle(t, ok)
  \/ \E t \in CapTxs, ok \in BOOLEAN : Commit(t, ok)
  \/ \E t \in CapTxs, ok \in BOOLEAN : Rollback(t, ok)

SpecTxCap == Init /\ [][NextTxCap]_vars

\* No connect or disconnect call is in progress.
NoLifecycle == \A p \in Callers : lcPc[p] = "idle"

\* One DatabaseConnection whose connect and disconnect calls are made one
\* after another, used meanwhile by query() and by Transaction.run.
NextConnSeq ==
  \/ \E p \in Callers : NoLifecycle /\ ConnectCall(p)
  \/ \E p \in Callers, ok \in BOOLEAN : ConnectVerify(p, ok)
  \/ \E p \in Callers : NoLifecycle /\ DisconnectCall(p)
  \/ \E p \in Callers : DisconnectEnd(p)
  \/ \E ok \in BOOLEAN : DbQuery(ok)
  \/ \E t \in ConnTxs : CallRun(t)
  \/ \E t \in ConnTxs, ok \in BOOLEAN : (ok => ~ending) /\ GetClient(t, ok)
  \/ \E t \in ConnTxs, ok \in BOOLEAN : Begin(t, ok)
  \/ \E t \in ConnTxs : FnWrite(t)
  \/ \E t \in ConnTxs, ok \in BOOLEAN : FnSettle(t, ok)
  \/ \E t \in ConnTxs, ok \in BOOLEAN : Commit(t, ok)
  \/ \E t \in ConnTxs, ok \in BOOLEAN : Rollback(t, ok)

SpecConnSeq == Init /\ [][NextConnSeq]_vars

\* One DatabaseConnection whose connect and disconnect calls may overlap:
\* a call can start while another is at its await.
NextConn ==
  \/ \E p \in Callers : ConnectCall(p)
  \/ \E p \in Callers, ok \in BOOLEAN : ConnectVerify(p, ok)
  \/ \E p \in Callers : DisconnectCall(p)
  \/ \E p \in Callers : DisconnectEnd(p)
  \/ \E ok \in BOOLEAN : DbQuery(ok)

SpecConn == Init /\ [][NextConn]_vars

\* The subscribing modules on a bus: migrations applied, modules created
\* and events published in any order.
NextModules ==
  \/ \E d \in Modules : ApplyMigrations(d)
  \/ \E rel \in {ProfilesRelation, SubscriptionsRelation} : CreateRelation(rel)
  \/ \E m \in Modules : CreateModule(m)
  \/ \E userId \in 1..(2 * MaxDirect), email \in EventEmails :
       PublishDirect(userId, email)

SpecModules == Init /\ [][NextModules]_vars

\* The database of the test setups: the migrations of the three domains
\* applied, their schemas dropped and the migrations applied again, in any
\* order, on a server where the relations the statements name may exist.
NextSchemas ==
  \/ \E d \in Domains : ApplyMigrations(d)
  \/ \E d \in Domains : DropSchema(d)
  \/ \E rel \in StatementRelations : CreateRelation(rel)

SpecSchemas == Init /\ [][NextSchemas]_vars

\* Registration: the database and the modules are set up before the first
\* request, as the bootstrap does; execute calls then interleave freely.
NoExecute == execs = 0

NextApp ==
  \/ NoExecute /\ ApplyMigrations("auth")
  \/ \E rel \in StatementRelations : NoExecute /\ CreateRelation(rel)
  \/ \E m \in Modules : NoExecute /\ CreateModule(m)
  \/ \E r \in Regs, dto \in Dtos : ExecuteCall(r, dto)
  \/ \E r \in Regs : ExistsByEmail(r)
  \/ \E r \in Regs : CreatePassword(r)
  \/ \E r \in Regs : Save(r)
  \/ \E r \in Regs : PublishRegistered(r)

SpecApp == Init /\ [][NextApp]_vars

\* The application from its start: the database as earlier runs and test
\* setups may have left it, then bootstrap(), then the registration requests
\* that arrive once the app exists.
NotBooted == boot.pc = "idle"
Routed == boot.app
BootRegs == {"r1"}

NextBoot ==
  \/ NotBooted /\ ApplyMigrations("billing")
  \/ NotBooted /\ DropSchema("billing")
  \/ \E rel \in StatementRelations : NotBooted /\ CreateRelation(rel)
  \/ BootCall
  \/ \E ok \in BOOLEAN : BootConnect(ok)
  \/ BootMigrate
  \/ BootCreateModule
  \/ BootCreateApp
  \/ \E r \in BootRegs, dto \in Dtos : Routed /\ ExecuteCall(r, dto)
  \/ \E r \in BootRegs : ExistsByEmail(r)
  \/ \E r \in BootRegs : CreatePassword(r)
  \/ \E r \in BootRegs : Save(r)
  \/ \E r \in BootRegs : PublishRegistered(r)

SpecBoot == Init /\ [][NextBoot]_vars

\* ================================================================ claims
Positions(r) == {ups[r][i] : i \in 1..Len(ups[r])}

Increasing(q) ==
  \A i \in 1..Len(q) : \A j \in 1..Len(q) : i < j => PosLess(q[i], q[j])

C2_FailureAborts ==
  \A r \in Runners :
    (op[r] = "runAll" /\ failedUp[r] # NoFail) =>
      LET k == failedUp[r].pos IN
      /\ pc[r] = "idle"
      /\ result[r] = failedUp[r].err
      /\ \A p \in Places(r) : PosLess(p, k) => ledger[KeyAt(r, p)] > 0
      /\ \A p \in Positions(r) : p = k \/ PosLess(p, k)
      /\ \A p \in recs[r] : PosLess(p, k)

\* The up batch of the second migration of a domain failed after the first
\* was applied and recorded by the same run.
C2_Witness ==
  \E r \in Runners :
    /\ op[r] = "runAll" /\ failedUp[r] = [pos |-> <<1, 2>>, err |-> "up_failed"]
    /\ recs[r] = {<<1, 1>>}
    /\ Len(domainMigrations[r]) = 2

\* C3: the runAll after one that failed at k sends no up batch of a
\* migration before k, sends that of k first, sends the later ones in
\* registration order, and when it succeeds it has applied k and recorded
\* every migration it applied.
C3_RetryResumesAtK ==
  \A r \in Runners :
    (op[r] = "runAll" /\ resume[r] # NoPos) =>
      /\ \A p \in Positions(r) : ~PosLess(p, resume[r])
      /\ ups[r] # <<>> => ups[r][1] = resume[r]
      /\ Increasing(ups[r])
      /\ (pc[r] = "idle" /\ result[r] = "ok") =>
           /\ ups[r] # <<>>
           /\ recs[r] = Positions(r)
           /\ \A p \in recs[r] : ledger[KeyAt(r, p)] > 0

\* A retry resumed at the second migration of the first domain and went on
\* to the second domain.
C3_Witness ==
  \E r \in Runners :
    /\ op[r] = "runAll" /\ pc[r] = "idle" /\ result[r] = "ok"
    /\ resume[r] = <<1, 2>>
    /\ ups[r] = << <<1, 2>>, <<2, 1>> >>

C5_LedgerUnique == \A k \in Keys : ledger[k] <= 1

\* Two overlapping runs applied the same migration and the insert of the
\* later one was refused.
C5_Witness ==
  \E r \in Runners : \E q \in Runners \ {r} :
    /\ result[r] = "unique_violation"
    /\ recs[q] # {}

\* C6: within one runAll the up batches are sent in registration order
\* (domains in the order registered, migrations in the order declared), and
\* when the run is at a migration every migration before it is in the ledger.
C6_RegistrationOrder ==
  \A r \in Runners :
    /\ Increasing(ups[r])
    /\ pc[r] \in {"select", "up", "record"} =>
         \A p \in Places(r) :
           PosLess(p, Pos(r, di[r], mi[r])) => ledger[KeyAt(r, p)] > 0

\* One run applied both migrations of the first domain and then the one of
\* the second domain.
C6_Witness ==
  \E r \in Runners : ups[r] = << <<1, 1>>, <<1, 2>>, <<2, 1>> >>

\* C7: every ledger record has a completed up batch of its own, every
\* record a run inserted is of a migration whose up batch that run sent, and
\* the migration whose up batch failed is not recorded by that run.
C7_RecordAfterUp ==
  /\ \A k \in Keys : ledger[k] <= upCount[k]
  /\ \A r \in Runners :
       /\ recs[r] \subseteq Positions(r)
       /\ failedUp[r] # NoFail => failedUp[r].pos \notin recs[r]

\* A run recorded one migration and then failed at the next, which has no
\* record.
C7_Witness ==
  \E r \in Runners :
    /\ failedUp[r] # NoFail /\ failedUp[r].err = "up_failed"
    /\ recs[r] # {}
    /\ ledger[KeyAt(r, failedUp[r].pos)] = 0
    /\ upCount[KeyAt(r, failedUp[r].pos)] = 0

\* C8: when the CREATE TABLE statement of initialize() failed, the call
\* (initialize or runAll) has failed with that error.
C8_InitFailurePropagates ==
  \A r \in Runners :
    (pc[r] = "idle" /\ initErr[r] # "none") => result[r] = initErr[r]

\* C9: no down batch is ever executed.
C9_NoDown == \A k \in Keys : downCount[k] = 0

\* One run has succeeded after applying migrations and another has failed at
\* an up batch.
C9_Witness ==
  \E r \in Runners : \E q \in Runners \ {r} :
    /\ op[r] = "runAll" /\ pc[r] = "idle" /\ result[r] = "ok" /\ ups[r] # <<>>
    /\ op[q] = "runAll" /\ failedUp[q] # NoFail

\* C10: a publish for an event type that has no handler (no Set, or an empty
\* Set) succeeds at once, invokes no handler and leaves the map and the
\* unsubscribe closures as they are.
C10_PublishNoSubscribers ==
  [][ (published' = published + 1
       /\ HandlersGet(pubs'[published'].type) = <<>>)
      => /\ handlers' = handlers
         /\ invoked' = invoked
         /\ unsubs' = unsubs
         /\ pubs'[published'].state = "resolved"
         /\ pubs'[published'].result = "ok" ]_vars

\* A publish has succeeded with nothing invoked for a type whose only
\* handler had been unsubscribed, and another for a type never subscribed.
C10_Witness ==
  \E p \in PubIds : \E q \in PubIds :
    /\ pubs[p].state = "resolved" /\ pubs[p].result = "ok"
    /\ pubs[p].snapshot = {}
    /\ pubs[p].type \in DOMAIN handlers /\ handlers[pubs[p].type] = <<>>
    /\ pubs[q].state = "resolved" /\ pubs[q].result = "ok"
    /\ pubs[q].type \notin DOMAIN handlers
    /\ \A h \in Handlers : invoked[h] = 0

\* C11: a publish call invokes each handler subscribed to the type of its
\* event exactly once, whether or not a handler fails, and no other handler.
C11_EveryHandlerOnce ==
  [][ published' = published + 1
      => \A h \in Handlers :
           invoked'[h] = invoked[h]
             + (IF h \in Members(HandlersGet(pubs'[published'].type))
                THEN 1 ELSE 0) ]_vars

\* C12: when a handler of a publish call has failed, publish has reported
\* the failure and every other handler of the call has been started and is
\* either still running or has finished; none was cancelled or left out.
C12_FailureLeavesOthers ==
  \A p \in PubIds :
    pubs[p].failed # {} =>
      /\ pubs[p].result = "rejected"
      /\ (pubs[p].snapshot \ pubs[p].failed) \subseteq pubs[p].called

\* C13: a publish call that has completed has no handler still running.
C13_JoinsAllHandlers ==
  \A p \in PubIds : pubs[p].state = "resolved" => pubs[p].pending = {}

\* C14: when two or more handlers of a publish call have failed, the
\* failure the publisher receives carries every one of them.
C14_AggregateCarriesAll ==
  \A p \in PubIds :
    (pubs[p].state = "resolved" /\ Cardinality(pubs[p].failed) >= 2)
      => pubs[p].carried = pubs[p].failed

\* C15: the handlers a publish call invokes are exactly those subscribed to
\* the type of its event when it begins, and no later subscribe or
\* unsubscribe changes them.
C15_SnapshotAtBegin ==
  [][ \A p \in PubIds :
        /\ (pubs[p].state = "free" /\ pubs'[p].state # "free")
             => pubs'[p].called = Members(HandlersGet(pubs'[p].type))
        /\ pubs[p].state # "free" => pubs'[p].called = pubs[p].called ]_vars

\* C16: the closure returned by subscribe(t, h) removes h from the Set of t
\* and nothing else, whatever the map holds when it is invoked: every other
\* handler of t keeps its place and the Sets of the other types are
\* untouched; a step that removes a handler is such a removal, and a publish
\* invokes only handlers that are in the Set of its type when it begins.
C16_UnsubscribeRemovesOnlyH ==
  [][ /\ \A s \in unsubs :
           LET m == UnsubscribeFn(handlers, s[1], s[2])
           IN /\ DOMAIN m = DOMAIN handlers
              /\ s[2] \notin Members(m[s[1]])
              /\ m[s[1]] = SelectSeq(handlers[s[1]], LAMBDA g : g # s[2])
              /\ \A x \in DOMAIN handlers \ {s[1]} : m[x] = handlers[x]
      /\ \A t \in DOMAIN handlers :
           \A h \in Members(handlers[t]) \ Members(handlers'[t]) :
             /\ <<t, h>> \in unsubs
             /\ handlers' = UnsubscribeFn(handlers, t, h)
             /\ Members(handlers'[t]) = Members(handlers[t]) \ {h}
      /\ published' = published + 1
           => pubs'[published'].called
                \subseteq Members(HandlersGet(pubs'[published'].type)) ]_vars

\* h1 was unsubscribed from the first event type, where h2 stays, and is
\* still a handler of the second type; a publish of the first type has
\* invoked h2 only and a publish of the second has invoked h1.
C16_Witness ==
  /\ <<"auth.user_registered", "h1">> \in unsubs
  /\ handlers["auth.user_registered"] = <<"h2">>
  /\ "auth.user_logged_in" \in DOMAIN handlers
  /\ handlers["auth.user_logged_in"] = <<"h1">>
  /\ \E p \in PubIds : \E q \in PubIds :
       /\ pubs[p].type = "auth.user_registered" /\ pubs[p].called = {"h2"}
       /\ pubs[q].type = "auth.user_logged_in" /\ pubs[q].called = {"h1"}
       /\ p < q

\* C17: invoking an unsubscribe closure again changes nothing: the map after
\* two invocations is the map after one, and the Set the closure deletes
\* from exists, so no invocation fails.
C17_UnsubscribeIdempotent ==
  \A s \in unsubs :
    /\ s[1] \in DOMAIN handlers
    /\ UnsubscribeFn(UnsubscribeFn(handlers, s[1], s[2]), s[1], s[2])
         = UnsubscribeFn(handlers, s[1], s[2])

\* Both closures of the first event type have been invoked, in a map where
\* the other type still has its handler: any further invocation is a repeat.
C17_Witness ==
  /\ {<<"auth.user_registered", "h1">>, <<"auth.user_registered", "h2">>}
       \subseteq unsubs
  /\ handlers["auth.user_registered"] = <<>>
  /\ "auth.user_logged_in" \in DOMAIN handlers
  /\ handlers["auth.user_logged_in"] = <<"h1">>

\* C18: a publishAll call has succeeded exactly when the publish of each of
\* its events has succeeded (with no event it succeeds at once) and has
\* failed once the publish of one event has failed; the call publishes
\* every event of the sequence, whatever happens to the others: the publish
\* of an event in which no handler call threw has invoked every handler of
\* its type.
C18_PublishAllOutcome ==
  [][ /\ \A i \in DOMAIN alls :
           /\ alls[i].result = "ok"
                <=> \A p \in PublishIds(alls[i]) : pubs[p].result = "ok"
           /\ (\E p \in PublishIds(alls[i]) : pubs[p].result = "rejected")
                => alls[i].result = "rejected"
           /\ alls[i].result = "rejected"
                => \E p \in PublishIds(alls[i]) : pubs[p].result = "rejected"
      /\ Len(alls') = Len(alls) + 1
           => LET a == alls'[Len(alls')]
              IN /\ published' = published + Len(a.events)
                 /\ \A p \in PublishIds(a) :
                      /\ pubs'[p].state # "free"
                      /\ pubs'[p].type = a.events[p - published]
                      /\ pubs'[p].failed = {}
                           => pubs'[p].called
                                = Members(HandlersGet(pubs'[p].type)) ]_vars

\* A publishAll of two events has failed because the handler of the first
\* event failed, the handler of the second event was invoked and succeeded.
C18_Witness ==
  \E i \in DOMAIN alls :
    /\ Len(alls[i].events) = 2
    /\ alls[i].result = "rejected"
    /\ pubs[alls[i].first].result = "rejected"
    /\ pubs[alls[i].first + 1].result = "ok"
    /\ pubs[alls[i].first + 1].called # {}

\* C19: after a completed run, the writes of an fn that failed are not
\* observable, and the writes of an fn that returned normally are all
\* observable and run has returned the result of fn.
C19_Atomic ==
  \A t \in Txs :
    (txPc[t] = "idle" /\ txResult[t] # "none") =>
      /\ txFn[t] = "threw" => observable[t] = 0
      /\ txFn[t] = "returned"
           => observable[t] = written[t] /\ txResult[t] = "value"

\* C19, amended: no write of a run is observable while the run is in
\* progress; after a completed run the writes of an fn that failed are not
\* observable; the writes of an fn that returned normally are all observable
\* and run has returned the result of fn when COMMIT succeeded, and none is
\* observable and run has failed with the error of COMMIT, or of the
\* ROLLBACK that followed it, when COMMIT failed.
C19_AtomicWhenCommitted ==
  \A t \in Txs :
    /\ txPc[t] # "idle" => observable[t] = 0
    /\ (txPc[t] = "idle" /\ txResult[t] # "none") =>
         /\ txFn[t] = "threw"
              => /\ observable[t] = 0
                 /\ txResult[t] \in {"fn_error", "rollback_error"}
         /\ txFn[t] = "returned"
              => \/ /\ txResult[t] = "value"
                    /\ observable[t] = written[t]
                 \/ /\ txResult[t] \in {"commit_error", "rollback_error"}
                    /\ txErr[t] = "commit_error"
                    /\ observable[t] = 0

\* Three runs have completed after a write each: one whose fn failed, one
\* that committed, one whose COMMIT failed.
C19_Witness ==
  \E t \in Txs : \E u \in Txs : \E v \in Txs :
    /\ txPc[t] = "idle" /\ txFn[t] = "threw" /\ written[t] = MaxWrites
    /\ txResult[t] = "fn_error" /\ observable[t] = 0
    /\ txPc[u] = "idle" /\ txFn[u] = "returned" /\ written[u] = MaxWrites
    /\ txResult[u] = "value" /\ observable[u] = MaxWrites
    /\ txPc[v] = "idle" /\ txFn[v] = "returned" /\ written[v] = MaxWrites
    /\ txResult[v] = "commit_error" /\ observable[v] = 0

\* C20: a run that acquired a connection releases it exactly once, at its
\* end, on every exit path, and a run that acquired none releases nothing:
\* every checked-out connection is held by a run in progress, so when no run
\* is in progress no connection is checked out and the pool can hand one out.
C20_ReleasedExactlyOnce ==
  /\ \A t \in Txs :
       /\ txPc[t] \in {"begin", "fn", "commit", "rollback"}
            => /\ txGot[t] /\ txReleases[t] = 0
               /\ txConn[t] \in Conns /\ clients[txConn[t]] = t
       /\ txPc[t] \in {"idle", "getClient"} => txConn[t] = 0
       /\ (txPc[t] = "idle" /\ txResult[t] # "none")
            => txReleases[t] = (IF txGot[t] THEN 1 ELSE 0)
  /\ \A c \in Conns :
       clients[c] # "free" => txConn[clients[c]] = c
  /\ NoRun => Cardinality({c \in Conns : clients[c] # "free"}) = 0
  /\ NoRun => FreeConn # 0

\* Three runs have completed and released their connection: one whose BEGIN
\* failed, one whose fn failed, one whose COMMIT and ROLLBACK both failed.
C20_Witness ==
  /\ NoRun
  /\ \E t \in Txs : \E u \in Txs : \E v \in Txs :
       /\ txResult[t] = "begin_error" /\ txReleases[t] = 1
       /\ txResult[u] = "fn_error" /\ txReleases[u] = 1
       /\ txResult[v] = "rollback_error" /\ txErr[v] = "commit_error"
       /\ txReleases[v] = 1
  /\ \A c \in Conns : clients[c] = "free"

\* C21: a completed run whose fn failed has raised the error of fn,
\* whatever the ROLLBACK statement did.
C21_OriginalErrorReraised ==
  \A t \in Txs :
    (txPc[t] = "idle" /\ txResult[t] # "none" /\ txFn[t] = "threw")
      => txResult[t] = "fn_error"

\* C22: a connection is held by at most one run, which is in progress; runs
\* in progress hold distinct connections; a statement sent through the
\* capability of a run is executed on the session of the connection that
\* run holds and touches no other session.
C22_ExclusiveConnection ==
  [][ /\ \A t \in Txs : \A u \in Txs \ {t} :
           txConn[t] # 0 => txConn[t] # txConn[u]
      /\ \A t \in Txs :
           txConn[t] # 0
             => /\ clients[txConn[t]] = t
                /\ txPc[t] \in {"begin", "fn", "commit", "rollback"}
      /\ \A c \in Conns : clients[c] # "free" => txConn[clients[c]] = c
      /\ \A t \in Txs :
           written'[t] = written[t] + 1
             => /\ txConn[t] \in Conns
                /\ clients[txConn[t]] = t
                /\ session'[txConn[t]] # session[txConn[t]]
                /\ \A c \in Conns \ {txConn[t]} : session'[c] = session[c] ]_vars

\* Two runs are inside fn at the same time, each has written on its own
\* connection, and a third run waits for the pool.
C22_Witness ==
  \E t \in Txs : \E u \in Txs \ {t} : \E v \in Txs \ {t, u} :
    /\ txPc[t] = "fn" /\ txPc[u] = "fn" /\ txPc[v] = "getClient"
    /\ written[t] = MaxWrites /\ written[u] = MaxWrites
    /\ txConn[t] # txConn[u]
    /\ session[txConn[t]].pending = MaxWrites
    /\ session[txConn[u]].pending = MaxWrites

\* C23: a connect() call on a connection that has a pool returns at once
\* with success, creates no pool and keeps the one there is; there is never
\* more than one pool, and there is exactly one while a pool is stored.
C23_ConnectIdempotent ==
  [][ /\ (lcCalls' = lcCalls + 1 /\ lcOp'.method = "connect" /\ IsConnected)
           => /\ pool' = pool
              /\ live' = live
              /\ ending' = ending
              /\ lcPc'[lcOp'.by] = "idle"
              /\ lcResult'[lcOp'.by] = "ok"
      /\ live <= 1
      /\ IsConnected <=> live = 1 ]_vars

\* Every call so far was a connect(); the latest returned at once on the
\* pool that an earlier call had created and verified.
C23_Witness ==
  /\ lcCalls = MaxLife
  /\ lcOp.method = "connect"
  /\ \A p \in Callers : lcPc[p] = "idle" /\ lcResult[p] = "ok"
  /\ IsConnected /\ live = 1 /\ ~ending

\* C24: a query() call and a Transaction.run call (whose first statement is
\* getClient()) made while there is no pool fail with the "not connected"
\* error, hand no statement to a pool and acquire no connection.
C24_NotConnected ==
  [][ /\ (qCalls' = qCalls + 1 /\ ~IsConnected)
           => /\ qResult' = "not_connected"
              /\ qSent' = qSent
              /\ clients' = clients
              /\ session' = session
      /\ (txRuns' = txRuns + 1 /\ ~IsConnected)
           => /\ \E t \in Txs :
                   /\ txPc[t] = "idle" /\ txPc'[t] = "idle"
                   /\ txResult'[t] = "not_connected"
                   /\ ~txGot'[t] /\ txReleases'[t] = 0 /\ written'[t] = 0
              /\ txPc' = txPc
              /\ txConn' = txConn
              /\ clients' = clients
              /\ session' = session
              /\ qSent' = qSent ]_vars

\* After a disconnect() that closed the pool, a query() and a run() have
\* failed with the "not connected" error; an earlier query(), made while
\* connected, is the only statement that reached a pool.
C24_Witness ==
  /\ ~IsConnected /\ live = 0
  /\ lcOp.method = "disconnect" /\ lcResult[lcOp.by] = "ok" /\ lcCalls = 2
  /\ qCalls = 2 /\ qSent = 1 /\ qResult = "not_connected"
  /\ txRuns = 1 /\ txResult["t1"] = "not_connected" /\ ~txGot["t1"]
  /\ \A c \in Conns : clients[c] = "free"

\* C25: with disconnect() calls made one after another, a call on a
\* connection that has a pool ends it, and when it completes the pool is
\* closed and forgotten; a call on a connection that has no pool returns at
\* once and changes nothing; isConnected() is false after either, and no
\* disconnect() call fails.
C25_DisconnectRepeatable ==
  [][ /\ (lcCalls' = lcCalls + 1 /\ lcOp'.method = "disconnect")
           => IF IsConnected
              THEN /\ ending' /\ lcPc'[lcOp'.by] = "ending"
                   /\ pool' = pool /\ live' = live
              ELSE /\ lcPc'[lcOp'.by] = "idle"
                   /\ lcResult'[lcOp'.by] = "ok"
                   /\ pool' = pool /\ live' = live /\ ending' = ending
                   /\ ~IsConnected'
      /\ \A p \in Callers :
           (lcPc[p] = "ending" /\ lcPc'[p] = "idle")
             => /\ lcResult'[p] = "ok"
                /\ ~IsConnected'
                /\ live' = 0 /\ live = 1
      /\ \A p \in Callers : lcResult[p] # "end_error" ]_vars

\* connect(), disconnect(), disconnect(): the pool that served a query has
\* been closed, and the latest disconnect() returned at once with success.
C25_Witness ==
  /\ lcCalls = 3
  /\ lcOp.method = "disconnect" /\ lcOp.atOnce
  /\ lcPc[lcOp.by] = "idle" /\ lcResult[lcOp.by] = "ok"
  /\ qSent >= 1
  /\ ~IsConnected /\ live = 0

\* ---------------------------------------------------------------- C26
\* The positions in deliveries of the events published for user u.
DeliveriesFor(u) == {i \in 1..Len(deliveries) : deliveries[i].user = u}

\* C26: for each subscribing module (users, billing): once the module's
\* migrations have been applied by runAll() and the module has been created
\* on a bus, publishing one auth.user_registered event for a user succeeds
\* and leaves exactly one row for that user in the relation the module's
\* migrations created: a profile with the event's email for users, a free
\* and active subscription for billing.  Stated for a bus that carries the
\* one module, as in the module's tests.
C26_OneRowInMigratedRelation ==
  \A i \in 1..Len(deliveries) : \A m \in Modules :
    LET d == deliveries[i]
        mine == {w \in rows : w.rel \in MigratedRelations(m) /\ w.user = d.user}
    IN (d.modules = {m} /\ m \in d.applied /\ DeliveriesFor(d.user) = {i}) =>
         /\ d.ok
         /\ Cardinality(mine) = 1
         /\ \A w \in mine :
              IF m = "users"
              THEN w.id = d.user /\ w.email = d.email
              ELSE w.plan = "free" /\ w.status = "active"

\* ---------------------------------------------------------------- C27
\* The profile rows of user u, in the relation the migrations create and in
\* the relation the handler names.
ProfileRows(u) ==
  {w \in rows : w.rel \in UsersRelations \cup {ProfilesRelation} /\ w.id = u}

\* C27: with the users module subscribed, on a database the users migrations
\* were applied to, publishing the same auth.user_registered event (same
\* user id) twice results in exactly one profile row for that user id, and
\* both deliveries succeed: the second one changes nothing.
C27_UsersHandlerIdempotent ==
  \A i \in 1..Len(deliveries) : \A j \in 1..Len(deliveries) :
    LET d == deliveries[i]
        e == deliveries[j]
    IN (/\ i < j
        /\ d.user = e.user /\ d.email = e.email
        /\ d.modules = {"users"} /\ e.modules = {"users"}
        /\ "users" \in d.applied) =>
         /\ d.ok
         /\ e.ok
         /\ Cardinality(ProfileRows(d.user)) = 1

\* ---------------------------------------------------------------- C28
\* The subscription rows, in the relation the migration creates and in the
\* relation the handler names.
SubscriptionRows ==
  {w \in rows : w.rel \in BillingRelations \cup {SubscriptionsRelation}}

\* The event published in this step reaches the billing handler, which has
\* handled an event for the same user id before.
BillingRedelivery ==
  /\ Len(deliveries') = Len(deliveries) + 1
  /\ LET e == deliveries'[Len(deliveries')]
     IN /\ "billing" \in e.modules
        /\ \E i \in 1..Len(deliveries) :
             /\ deliveries[i].user = e.user
             /\ "billing" \in deliveries[i].modules
             /\ deliveries[i].ok

\* C28: the billing module's auth.user_registered handler is idempotent:
\* delivering the same event (same user id) a second time leaves the
\* subscription rows as the first delivery left them.
C28_BillingHandlerIdempotent ==
  [][BillingRedelivery => SubscriptionRows' = SubscriptionRows]_vars

\* ---------------------------------------------------------------- C29
\* The positions in deliveries of the events published by execute call c.
EventsOf(c) == {i \in 1..Len(deliveries) : deliveries[i].by = c}

C33_StatementOrder ==
  [][\A t \in Txs :
       /\ (txPc'[t] # txPc[t] /\ txPc'[t] = "begin") =>
            txPc[t] = "getClient" /\ txConn'[t] # 0 /\ session'[txConn'[t]] = CleanSession
       /\ (txPc'[t] # txPc[t] /\ txPc'[t] = "fn") =>
            txPc[t] = "begin" /\ session'[txConn[t]].inTx
       /\ written'[t] > written[t] => txPc[t] = "fn"
       /\ (txPc'[t] # txPc[t] /\ txPc'[t] = "commit") =>
            txPc[t] = "fn" /\ txFn'[t] = "returned"
       /\ (txPc'[t] # txPc[t] /\ txPc'[t] = "rollback") =>
            /\ txPc[t] \in {"begin", "fn", "commit"}
            /\ txErr'[t] \in {"begin_error", "fn_error", "commit_error"}
            /\ txPc[t] = "fn" => txFn'[t] = "threw"
       /\ txReleases'[t] > txReleases[t] =>
            /\ txPc[t] \in {"commit", "rollback"}
            /\ clients[txConn[t]] = t
            /\ clients'[txConn[t]] = "free"
  ]_vars

\* A run whose fn wrote and returned, whose COMMIT failed and whose
\* connection was released after the ROLLBACK that followed.
C33_Witness ==
  \E t \in Txs :
    /\ txGot[t] /\ written[t] = 1 /\ txFn[t] = "returned"
    /\ txResult[t] = "commit_error" /\ txReleases[t] = 1 /\ txPc[t] = "idle"

\* ---------------------------------------------------------------- C39
\* C39: a statement sent through a transaction-scoped capability is executed
\* on the capability's connection only while the run that built the
\* capability holds that connection: never after that run released it, and
\* so never inside the transaction of another run.
C39_NoUseAfterRelease ==
  [][\A t \in Txs :
       (txCap[t] # 0 /\ txCap'[t] = 0) =>
         /\ clients[txCap[t]] = t
         /\ txConn[t] = txCap[t]
  ]_vars

\* ---------------------------------------------------------------- C35
\* C35: when a handler throws as it is called, before it has returned its
\* promise, the publish call still invokes every handler of its snapshot
\* exactly once, and it reports a failure.
C35_ThrowLeavesOthersInvoked ==
  [][ (published' = published + 1 /\ pubs'[published'].failed # {}) =>
        LET q == pubs'[published'] IN
          /\ q.result = "rejected"
          /\ q.called = q.snapshot
          /\ \A h \in q.snapshot : invoked'[h] = invoked[h] + 1 ]_vars

\* ---------------------------------------------------------------- C36
\* The handlers of event type t that have a subscription whose closure has
\* not been invoked.
Subscribed(t) ==
  {h \in Handlers : <<t, h>> \in Subscriptions
                      /\ \E n \in 1..Len(closures[<<t, h>>]) : closures[<<t, h>>][n]}

\* C36: invoking the closure of one subscribe call removes no subscription
\* made by another call: a handler subscribed twice to an event type is
\* still invoked by a publish after one of its two closures was invoked.
C36_OtherSubscriptionStays ==
  [][ published' = published + 1 =>
        Subscribed(pubs'[published'].type) \subseteq pubs'[published'].called ]_vars

\* ---------------------------------------------------------------- C37
\* C37: isConnected() is true only after a connect() that completed with
\* success: when the last lifecycle call was a connect() whose verification
\* failed, and it has returned, isConnected() is false.
C37_FailedConnectNotConnected ==
  \A p \in Callers :
    (/\ lcOp.by = p /\ lcOp.method = "connect" /\ ~lcOp.atOnce
     /\ lcPc[p] = "idle" /\ lcResult[p] = "connect_error")
      => ~IsConnected

\* ---------------------------------------------------------------- C38
\* C38: when lifecycle calls overlap, no disconnect() calls end() on a pool
\* that end() was already called on, and after a connect() that returned
\* with success, with no lifecycle call started since, the instance holds a
\* pool that is not ending.
C38_OverlappingCallsSafe ==
  /\ \A p \in Callers : lcResult[p] # "end_error"
  /\ (lcOp.method = "connect" /\ lcPc[lcOp.by] = "idle" /\ lcResult[lcOp.by] = "ok")
       => (pool = "open" /\ ~ending)

\* ---------------------------------------------------------------- C34
\* The events published by execute calls whose publish was rejected.
FailedPublishes ==
  {i \in 1..Len(deliveries) : deliveries[i].by # 0 /\ ~deliveries[i].ok}

C40_OverlapOtherAlreadyExists ==
  \A r \in Regs, c \in Regs :
    (/\ r # c /\ reg[r].pc = "done" /\ reg[c].pc = "done"
     /\ reg[c].result = "ok" /\ reg[r].email = reg[c].email
     /\ PasswordCreate(reg[r].dto.password) = "ok")
      => reg[r].result = "EmailAlreadyExistsError"

\* ---------------------------------------------------------------- C31
\* C31: for each of the domains auth, users and billing, once its
\* migrations have been applied, dropSchema(domain) followed by runAll()
\* succeeds: no such runAll() fails, and after it the domain's tables exist
\* again and its migrations are in the ledger.
C31_DropThenRunAllSucceeds ==
  \A d \in Domains :
    /\ schemaState[d] # "failed"
    /\ schemaState[d] = "reapplied" =>
         (d \in applied /\ MigratedRelations(d) \subseteq relations)

\* ---------------------------------------------------------------- C32
\* C32: bootstrap connects the database, then completes runAll() over the
\* migrations of auth, users and billing, then creates the modules, which
\* subscribe their handlers, and then creates the Express app: no handler is
\* subscribed before every migration is applied, and no route exists, and
\* no request is served, before every handler is subscribed.
C32_BootstrapOrder ==
  /\ boot.pc \in {"runAll", "modules", "createApp", "done"} =>
       (boot.connected /\ pool = "open")
  /\ boot.migrated => boot.connected
  /\ modules # {} => (boot.migrated /\ Domains \subseteq applied)
  /\ boot.app => (modules = Modules /\ boot.migrated)
  /\ execs > 0 => boot.app

\* bootstrap has returned the app with both handlers subscribed and every
\* domain migrated, and a request has been served.
C32_Witness ==
  /\ boot.pc = "done" /\ boot.app /\ boot.connected /\ boot.migrated
  /\ modules = Modules /\ Domains \subseteq applied
  /\ execs > 0

====
